---- MODULE Spec2Model ----
(***************************************************************************)
(* A model of office_open_xml: the IttyZip archive writer (IttyZip.h and   *)
(* IttyZip.cpp) and the BasicWorkbook sheet/workbook model                 *)
(* (BasicWorkbook.h and BasicWorkbook.cpp).                                *)
(*                                                                         *)
(* Values of C++ type uint32_t are pairs <<hi, lo>> of 16-bit limbs, since  *)
(* TLC's integers are 32-bit signed; uint16_t values are naturals below    *)
(* 65536.  A std::string used as an entry name is a record                 *)
(* [text, rep]: the string `text` repeated `rep` times, which lets names   *)
(* longer than 65535 bytes be written down.  Entry contents are sequences  *)
(* of byte values.                                                         *)
(***************************************************************************)
EXTENDS Integers, Sequences, FiniteSets, TLC

VARIABLES
    archive,      \* the IttyZip object (stand-alone, or Workbook::archive)
    added,        \* history: <<name, contents>> of each successful addFile since the last open()
    zret,         \* the last archive call, the entry name passed to it, and what it threw ("none" if it returned)
    wb,           \* the Workbook: its sheets and its cell_styles
    wret,         \* the last Workbook/Sheet call and what it threw
    counted,      \* the long-archive scenario: an IttyZip object held by sizes, and its history
    refs          \* the Sheet& references the caller holds: the sheet each was returned for, and whether it dangles

vars == <<archive, added, zret, wb, wret, counted, refs>>

----------------------------------------------------------------------------
(* Bounds of the model *)

\* the stand-alone archive scenario adds at most this many entries per archive
MaxFiles == 2

----------------------------------------------------------------------------
(* Fixed-width integers *)

TwoTo16 == 65536

RECURSIVE BitXor(_, _)
BitXor(a, b) ==
    IF a = 0 THEN b
    ELSE IF b = 0 THEN a
    ELSE (((a % 2) + (b % 2)) % 2) + 2 * BitXor(a \div 2, b \div 2)

RECURSIVE BitAnd(_, _)
BitAnd(a, b) ==
    IF a = 0 \/ b = 0 THEN 0
    ELSE ((a % 2) * (b % 2)) + 2 * BitAnd(a \div 2, b \div 2)

RECURSIVE BitOr(_, _)
BitOr(a, b) ==
    IF a = 0 THEN b
    ELSE IF b = 0 THEN a
    ELSE (IF a % 2 = 1 \/ b % 2 = 1 THEN 1 ELSE 0) + 2 * BitOr(a \div 2, b \div 2)

\* static_cast<uint16_t>(n)
ToU16(n) == n % TwoTo16

\* static_cast<uint32_t>(n), n a natural number TLC can hold
ToU32(n) == <<(n \div TwoTo16) % TwoTo16, n % TwoTo16>>

\* a + b in uint32_t arithmetic
Add32(a, b) ==
    LET lo == a[2] + b[2]
        hi == a[1] + b[1] + (lo \div TwoTo16)
    IN  <<hi % TwoTo16, lo % TwoTo16>>

Xor32(a, b) == <<BitXor(a[1], b[1]), BitXor(a[2], b[2])>>

\* a >> 8 on a uint32_t
Shr8(a) == <<a[1] \div 256, (a[1] % 256) * 256 + (a[2] \div 256)>>

Zero32 == <<0, 0>>
AllOnes32 == <<65535, 65535>>

----------------------------------------------------------------------------
(* IttyZip: checksum *)

crc32_table == <<
    <<0, 0>>, <<30471, 12438>>, <<60942, 24876>>, <<39177, 20922>>,
    <<1901, 50201>>, <<28778, 62607>>, <<59747, 42293>>, <<40548, 38307>>,
    <<3803, 34866>>, <<31196, 47268>>, <<57557, 59678>>, <<38866, 55688>>,
    <<2486, 19499>>, <<32433, 31933>>, <<59320, 11527>>, <<37055, 7569>>,
    <<7607, 4196>>, <<27312, 8434>>, <<62393, 29000>>, <<33982, 16862>>,
    <<6874, 54397>>, <<28125, 58603>>, <<62676, 46417>>, <<33747, 34247>>,
    <<4972, 38998>>, <<25707, 43200>>, <<64866, 63866>>, <<35429, 51692>>,
    <<5121, 23631>>, <<25350, 27865>>, <<64015, 15715>>, <<36104, 3573>>,
    <<15214, 8392>>, <<19561, 4190>>, <<54624, 16868>>, <<41575, 29042>>,
    <<15363, 58577>>, <<19204, 54343>>, <<53773, 34301>>, <<42250, 46443>>,
    <<13749, 43258>>, <<17074, 39020>>, <<56251, 51670>>, <<44220, 63808>>,
    <<13016, 27875>>, <<17887, 23669>>, <<56534, 3535>>, <<43985, 15705>>,
    <<9945, 12460>>, <<20958, 58>>, <<51415, 20864>>, <<49104, 24854>>,
    <<8628, 62645>>, <<22195, 50211>>, <<53178, 38297>>, <<47293, 42255>>,
    <<10242, 47262>>, <<24325, 34824>>, <<50700, 55730>>, <<45323, 59684>>,
    <<12143, 31879>>, <<22632, 19473>>, <<49505, 7595>>, <<46694, 11581>>,
    <<30428, 16784>>, <<475, 28934>>, <<39122, 8380>>, <<61397, 4138>>,
    <<29105, 34185>>, <<1718, 46367>>, <<40895, 58533>>, <<59576, 54323>>,
    <<30727, 51618>>, <<3840, 63796>>, <<38409, 43150>>, <<57614, 38936>>,
    <<32618, 3515>>, <<2157, 15661>>, <<37220, 27799>>, <<58979, 23553>>,
    <<27499, 20980>>, <<7276, 24930>>, <<34149, 12504>>, <<62050, 78>>,
    <<27654, 38381>>, <<6913, 42363>>, <<33288, 62657>>, <<62735, 50263>>,
    <<26032, 55750>>, <<4791, 59728>>, <<35774, 47338>>, <<64697, 34940>>,
    <<25309, 7647>>, <<5594, 11593>>, <<36051, 31987>>, <<64468, 19557>>,
    <<19890, 24920>>, <<15029, 20942>>, <<41916, 116>>, <<54459, 12514>>,
    <<19167, 42305>>, <<15832, 38359>>, <<42193, 50285>>, <<54230, 62715>>,
    <<17257, 59754>>, <<13422, 55804>>, <<44391, 34886>>, <<55904, 47312>>,
    <<17412, 11635>>, <<13059, 7653>>, <<43530, 19551>>, <<56589, 31945>>,
    <<20485, 28988>>, <<9986, 16810>>, <<48651, 4112>>, <<51468, 8326>>,
    <<22376, 46373>>, <<8303, 34227>>, <<47462, 54281>>, <<52833, 58527>>,
    <<24286, 63758>>, <<10713, 51608>>, <<45264, 38946>>, <<51159, 43188>>,
    <<22963, 15639>>, <<11956, 3457>>, <<47037, 23611>>, <<49338, 27821>>,
    <<60856, 33568>>, <<39615, 46006>>, <<950, 57868>>, <<29873, 53914>>,
    <<60117, 18233>>, <<40402, 30639>>, <<1243, 9749>>, <<29660, 5763>>,
    <<58211, 2834>>, <<37988, 15236>>, <<3437, 27198>>, <<31338, 23208>>,
    <<58382, 53003>>, <<37641, 65437>>, <<2560, 44583>>, <<32007, 40625>>,
    <<61455, 37700>>, <<34568, 41938>>, <<7681, 62056>>, <<26886, 49918>>,
    <<63330, 22365>>, <<32869, 26571>>, <<6508, 13937>>, <<28267, 1767>>,
    <<65236, 7030>>, <<35283, 11232>>, <<4314, 31322>>, <<26589, 19148>>,
    <<63929, 57199>>, <<36542, 61433>>, <<6071, 48707>>, <<24752, 36565>>,
    <<54998, 41960>>, <<41425, 37758>>, <<14552, 49860>>, <<20447, 62034>>,
    <<53691, 26609>>, <<42684, 22375>>, <<16309, 1757>>, <<18610, 13899>>,
    <<55309, 11226>>, <<44810, 6988>>, <<13827, 19190>>, <<16644, 31328>>,
    <<57184, 61379>>, <<43111, 57173>>, <<12654, 36591>>, <<18025, 48761>>,
    <<52065, 45964>>, <<48230, 33562>>, <<9583, 53920>>, <<21096, 57910>>,
    <<52236, 30613>>, <<47883, 18179>>, <<8706, 5817>>, <<21765, 9775>>,
    <<50618, 15294>>, <<45757, 2856>>, <<11188, 23186>>, <<23731, 27140>>,
    <<49879, 65447>>, <<46544, 53041>>, <<11481, 40587>>, <<23518, 44573>>,
    <<39780, 49840>>, <<60515, 61990>>, <<30058, 41884>>, <<621, 37642>>,
    <<39945, 1705>>, <<60174, 13887>>, <<29191, 26501>>, <<1280, 22291>>,
    <<38335, 19074>>, <<58040, 31252>>, <<31665, 11182>>, <<3254, 6968>>,
    <<37586, 36507>>, <<58837, 48653>>, <<31964, 61367>>, <<3035, 57121>>,
    <<34515, 53972>>, <<61908, 57922>>, <<26845, 46072>>, <<8154, 33646>>,
    <<33214, 5837>>, <<63161, 9819>>, <<28592, 30689>>, <<6327, 18295>>,
    <<34824, 23270>>, <<65295, 27248>>, <<26118, 15306>>, <<4353, 2908>>,
    <<36709, 40703>>, <<63586, 44649>>, <<24939, 65491>>, <<5740, 53061>>,
    <<40970, 57976>>, <<55053, 53998>>, <<19972, 33620>>, <<14595, 46018>>,
    <<42855, 9825>>, <<53344, 5879>>, <<18793, 18253>>, <<15982, 30683>>,
    <<44753, 27210>>, <<55766, 23260>>, <<16607, 2918>>, <<14296, 15344>>,
    <<43452, 44627>>, <<57019, 40645>>, <<18354, 53119>>, <<12469, 65513>>,
    <<48573, 61980>>, <<51898, 49802>>, <<21427, 37680>>, <<9396, 41894>>,
    <<47824, 13829>>, <<52695, 1683>>, <<21726, 22313>>, <<9177, 26559>>,
    <<45926, 31278>>, <<50273, 19128>>, <<23912, 6914>>, <<10863, 11156>>,
    <<46091, 48695>>, <<49932, 36513>>, <<23045, 57115>>, <<11522, 61325>>
>>

RECURSIVE crc32_loop(_, _, _)
crc32_loop(data, jChar, crc_reg) ==
    IF jChar > Len(data) THEN crc_reg
    ELSE LET table_indx == BitXor(crc_reg[2] % 256, data[jChar])
         IN  crc32_loop(data, jChar + 1, Xor32(Shr8(crc_reg), crc32_table[table_indx + 1]))

crc32(data) == Xor32(crc32_loop(data, 1, AllOnes32), AllOnes32)

----------------------------------------------------------------------------
(* IttyZip: DOS time and date stamp *)

Min(a, b) == IF a < b THEN a ELSE b

\* a stamp that takes tm_mon, which counts from 0, as the month
dosTimeDate_MonthFromZero(timestruct) ==
    LET time == BitOr(BitOr(BitAnd(31, Min(timestruct.tm_sec, 59) \div 2),
                            BitAnd(2016, timestruct.tm_min * 32)),
                      BitAnd(63488, timestruct.tm_hour * 2048))
        date0 == BitOr(BitAnd(31, timestruct.tm_mday),
                       BitAnd(480, timestruct.tm_mon * 32))
        date == IF timestruct.tm_year >= 80 /\ timestruct.tm_year - 80 < 128
                THEN BitOr(date0, BitAnd(65024, (timestruct.tm_year - 80) * 512))
                ELSE date0
    IN  [time |-> time, date |-> date]

\* dosTimeDate() applied to the std::tm the clock returned
dosTimeDate(timestruct) ==
    LET time == BitOr(BitOr(BitAnd(31, Min(timestruct.tm_sec, 59) \div 2),
                            BitAnd(2016, timestruct.tm_min * 32)),
                      BitAnd(63488, timestruct.tm_hour * 2048))
        date0 == BitOr(BitAnd(31, timestruct.tm_mday),
                       BitAnd(480, (timestruct.tm_mon + 1) * 32))
        date == IF timestruct.tm_year >= 80 /\ timestruct.tm_year - 80 < 128
                THEN BitOr(date0, BitAnd(65024, (timestruct.tm_year - 80) * 512))
                ELSE date0
    IN  [time |-> time, date |-> date]

----------------------------------------------------------------------------
(* Strings used as entry names *)

EmptyString == [text |-> "", rep |-> 0]
Lit(s) == IF s = "" THEN EmptyString ELSE [text |-> s, rep |-> 1]

\* std::string::size()
StrSize(s) == Len(s.text) * s.rep

\* std::string::substr(0, n)
StrPrefix(s, n) ==
    IF n >= StrSize(s) THEN s
    ELSE IF n = 0 THEN EmptyString
    ELSE IF Len(s.text) = 1 THEN [text |-> s.text, rep |-> n]
    ELSE [text |-> SubSeq(s.text, 1, n), rep |-> 1]

----------------------------------------------------------------------------
(* IttyZip: the output stream *)

\* the paths open() can create or truncate for writing
WritablePaths == {"book.xlsx", "other.xlsx"}

ClosedStream == [is_open |-> FALSE, fail |-> FALSE, bytes |-> <<>>]

\* std::ofstream::open(path, binary | out | trunc)
StreamOpen(out_file, path) ==
    IF out_file.is_open THEN [out_file EXCEPT !.fail = TRUE]
    ELSE IF path \in WritablePaths
         THEN [is_open |-> TRUE, fail |-> FALSE, bytes |-> <<>>]
         ELSE [out_file EXCEPT !.fail = TRUE]

\* std::ofstream::write: a stream that is closed or has failed writes nothing
StreamWrite(out_file, chunk) ==
    IF out_file.is_open /\ ~out_file.fail
    THEN [out_file EXCEPT !.bytes = Append(@, chunk)]
    ELSE [out_file EXCEPT !.fail = TRUE]

\* std::ofstream::close()
StreamClose(out_file) ==
    IF out_file.is_open THEN [out_file EXCEPT !.is_open = FALSE]
    ELSE [out_file EXCEPT !.fail = TRUE]

\* the number of bytes a written chunk occupies in the output file
ChunkSize(chunk) ==
    CASE chunk.kind = "localheader" -> 30 + chunk.header.filename_length
      [] chunk.kind = "contents" -> Len(chunk.data)
      [] chunk.kind = "central_directory" -> chunk.size
      [] chunk.kind = "endrecord" -> 22

----------------------------------------------------------------------------
(* IttyZip: the archive writer *)

\* IttyZip::IttyZip(void)
NewIttyZip ==
    [num_files |-> 0, opened |-> FALSE, next_offset |-> Zero32,
     central_directory |-> <<>>, filenames |-> {}, out_file |-> ClosedStream]

Returned(z) == [z |-> z, err |-> "none"]
Threw(z, mesg) == [z |-> z, err |-> mesg]

\* IttyZip::generateHeaders
generateHeaders(z, filename, file_size, file_crc32, timestruct) ==
    LET stamp == dosTimeDate(timestruct)
        filename_length == ToU16(StrSize(filename))
        stored == StrPrefix(filename, filename_length)
    IN  [first |->
           [signature |-> <<1027, 19280>>, extract_version |-> 10,
            general_bit_flag |-> 0, compression_method |-> 0,
            file_mod_timedate |-> stamp, crc32 |-> file_crc32,
            size_compressed |-> file_size, size_uncompressed |-> file_size,
            filename_length |-> filename_length, extra_field_length |-> 0,
            filename |-> stored],
         second |->
           [signature |-> <<513, 19280>>, version_made_by |-> 10,
            extract_version |-> 10, general_bit_flag |-> 0,
            compression_method |-> 0, file_mod_timedate |-> stamp,
            crc32 |-> file_crc32, size_compressed |-> file_size,
            size_uncompressed |-> file_size, filename_length |-> filename_length,
            extra_field_length |-> 0, comment_length |-> 0,
            disk_number_start |-> 0, internal_attributes |-> 0,
            external_attributes |-> Zero32, local_header_offset |-> z.next_offset,
            filename |-> stored]]

\* a writeLocalheader that reports the fixed header size and forgets the name
writeLocalheader_FixedCount(z, localheader) ==
    IF ~z.opened THEN [out_file |-> z.out_file, err |-> "NOT_OPENED_MESG", count |-> Zero32]
    ELSE IF ~z.out_file.is_open
    THEN [out_file |-> z.out_file, err |-> "UNEXPECTED_CLOSE_MESG", count |-> Zero32]
    ELSE IF z.out_file.fail
    THEN [out_file |-> z.out_file, err |-> "OUTPUT_FAIL_MESG", count |-> Zero32]
    ELSE [out_file |-> StreamWrite(z.out_file, [kind |-> "localheader", header |-> localheader]),
          err |-> "none",
          count |-> ToU32(30)]

\* IttyZip::writeLocalheader: the stream after the write, and the byte count returned
writeLocalheader(z, localheader) ==
    IF ~z.opened THEN [out_file |-> z.out_file, err |-> "NOT_OPENED_MESG", count |-> Zero32]
    ELSE IF ~z.out_file.is_open
    THEN [out_file |-> z.out_file, err |-> "UNEXPECTED_CLOSE_MESG", count |-> Zero32]
    ELSE IF z.out_file.fail
    THEN [out_file |-> z.out_file, err |-> "OUTPUT_FAIL_MESG", count |-> Zero32]
    ELSE [out_file |-> StreamWrite(z.out_file, [kind |-> "localheader", header |-> localheader]),
          err |-> "none",
          count |-> Add32(ToU32(30), ToU32(localheader.filename_length))]

\* the bytes storeDirheader appends for one directory header
DirheaderSize(dirheader) == 46 + dirheader.filename_length

\* IttyZip::storeDirheader
storeDirheader(central_directory, dirheader) == Append(central_directory, dirheader)

RECURSIVE DirectoryRangeSize(_, _, _)
\* the bytes held by the directory headers lo..hi of the buffer
DirectoryRangeSize(central_directory, lo, hi) ==
    IF lo > hi THEN 0
    ELSE IF lo = hi THEN DirheaderSize(central_directory[lo])
    ELSE LET mid == (lo + hi) \div 2
         IN  DirectoryRangeSize(central_directory, lo, mid)
               + DirectoryRangeSize(central_directory, mid + 1, hi)

\* central_directory.size()
DirectorySize(central_directory) ==
    DirectoryRangeSize(central_directory, 1, Len(central_directory))

\* IttyZip::generateEndRecord
generateEndRecord(z) ==
    [signature |-> <<1541, 19280>>, disk_number |-> 0, dir_start_disk_number |-> 0,
     this_disk_entries |-> z.num_files, total_entries |-> z.num_files,
     central_dir_size |-> ToU32(DirectorySize(z.central_directory)),
     central_dir_offset |-> z.next_offset, comment_length |-> 0]

\* IttyZip::writeEndRecord
writeEndRecord(z, end_record) ==
    IF ~z.opened THEN [out_file |-> z.out_file, err |-> "NOT_OPENED_MESG"]
    ELSE IF ~z.out_file.is_open THEN [out_file |-> z.out_file, err |-> "UNEXPECTED_CLOSE_MESG"]
    ELSE IF z.out_file.fail THEN [out_file |-> z.out_file, err |-> "OUTPUT_FAIL_MESG"]
    ELSE [out_file |-> StreamWrite(z.out_file, [kind |-> "endrecord", record |-> end_record]),
          err |-> "none"]

\* an open that resets the archive state before it tests for a double open
open_ResetsBeforeDoubleOpenCheck(z, outputFilename) ==
    LET reset == [z EXCEPT !.num_files = 0, !.next_offset = Zero32,
                           !.central_directory = <<>>]
    IN  IF z.opened \/ z.out_file.is_open THEN Threw(reset, "DOUBLE_OPEN_MESG")
        ELSE LET opening == [reset EXCEPT !.opened = FALSE,
                                          !.out_file = StreamOpen(z.out_file, outputFilename)]
             IN  IF ~opening.out_file.is_open THEN Threw(opening, "CANNOT_OPEN_MESG")
                 ELSE Returned([opening EXCEPT !.opened = TRUE])

\* IttyZip::open
open(z, outputFilename) ==
    IF z.opened \/ z.out_file.is_open THEN Threw(z, "DOUBLE_OPEN_MESG")
    ELSE LET reset == [z EXCEPT !.opened = FALSE, !.num_files = 0,
                                !.next_offset = Zero32, !.central_directory = <<>>,
                                !.out_file = StreamOpen(z.out_file, outputFilename)]
         IN  IF ~reset.out_file.is_open THEN Threw(reset, "CANNOT_OPEN_MESG")
             ELSE Returned([reset EXCEPT !.opened = TRUE])

\* an addFile that stores the directory header before it looks for a duplicate
addFile_StoresBeforeDuplicateCheck(z, filename, contents, timestruct) ==
    IF ~z.opened THEN Threw(z, "NOT_OPENED_MESG")
    ELSE IF ~z.out_file.is_open THEN Threw(z, "UNEXPECTED_CLOSE_MESG")
    ELSE IF z.out_file.fail THEN Threw(z, "OUTPUT_FAIL_MESG")
    ELSE
      LET file_crc32 == crc32(contents)
          file_headers == generateHeaders(z, filename, ToU32(Len(contents)), file_crc32, timestruct)
          z0 == [z EXCEPT !.central_directory = storeDirheader(@, file_headers.second)]
      IN  IF file_headers.first.filename \in z.filenames
          THEN Threw(z0, "DUPLICATE_FILE_MESG")
          ELSE
            LET z1 == [z0 EXCEPT !.filenames = @ \cup {file_headers.first.filename}]
                wl == writeLocalheader(z1, file_headers.first)
            IN  IF wl.err # "none" THEN Threw([z1 EXCEPT !.out_file = wl.out_file], wl.err)
                ELSE Returned(
                       [z1 EXCEPT
                          !.out_file = StreamWrite(wl.out_file, [kind |-> "contents", data |-> contents]),
                          !.next_offset = Add32(Add32(@, wl.count), ToU32(Len(contents))),
                          !.num_files = ToU16(@ + 1)])

\* an addFile that tests the stream before the opened flag
addFile_TestsStreamFirst(z, filename, contents, timestruct) ==
    IF ~z.out_file.is_open THEN Threw(z, "UNEXPECTED_CLOSE_MESG")
    ELSE IF ~z.opened THEN Threw(z, "NOT_OPENED_MESG")
    ELSE IF z.out_file.fail THEN Threw(z, "OUTPUT_FAIL_MESG")
    ELSE
      LET file_crc32 == crc32(contents)
          file_headers == generateHeaders(z, filename, ToU32(Len(contents)), file_crc32, timestruct)
      IN  IF file_headers.first.filename \in z.filenames
          THEN Threw(z, "DUPLICATE_FILE_MESG")
          ELSE
            LET z1 == [z EXCEPT !.filenames = @ \cup {file_headers.first.filename},
                                !.central_directory = storeDirheader(@, file_headers.second)]
                wl == writeLocalheader(z1, file_headers.first)
            IN  IF wl.err # "none" THEN Threw([z1 EXCEPT !.out_file = wl.out_file], wl.err)
                ELSE Returned(
                       [z1 EXCEPT
                          !.out_file = StreamWrite(wl.out_file, [kind |-> "contents", data |-> contents]),
                          !.next_offset = Add32(Add32(@, wl.count), ToU32(Len(contents))),
                          !.num_files = ToU16(@ + 1)])

\* IttyZip::addFile
addFile(z, filename, contents, timestruct) ==
    IF ~z.opened THEN Threw(z, "NOT_OPENED_MESG")
    ELSE IF ~z.out_file.is_open THEN Threw(z, "UNEXPECTED_CLOSE_MESG")
    ELSE IF z.out_file.fail THEN Threw(z, "OUTPUT_FAIL_MESG")
    ELSE
      LET file_crc32 == crc32(contents)
          file_headers == generateHeaders(z, filename, ToU32(Len(contents)), file_crc32, timestruct)
      IN  IF file_headers.first.filename \in z.filenames
          THEN Threw(z, "DUPLICATE_FILE_MESG")
          ELSE
            LET z1 == [z EXCEPT !.filenames = @ \cup {file_headers.first.filename},
                                !.central_directory = storeDirheader(@, file_headers.second)]
                wl == writeLocalheader(z1, file_headers.first)
            IN  IF wl.err # "none" THEN Threw([z1 EXCEPT !.out_file = wl.out_file], wl.err)
                ELSE Returned(
                       [z1 EXCEPT
                          !.out_file = StreamWrite(wl.out_file, [kind |-> "contents", data |-> contents]),
                          !.next_offset = Add32(Add32(@, wl.count), ToU32(Len(contents))),
                          !.num_files = ToU16(@ + 1)])

\* a finalize without the test for an empty archive
finalize_NoEmptyCheck(z) ==
    IF ~z.opened THEN Threw(z, "NOT_OPENED_MESG")
    ELSE IF ~z.out_file.is_open THEN Threw(z, "UNEXPECTED_CLOSE_MESG")
    ELSE IF z.out_file.fail THEN Threw(z, "OUTPUT_FAIL_MESG")
    ELSE
      LET z1 == [z EXCEPT !.out_file =
                    StreamWrite(@, [kind |-> "central_directory",
                                    entries |-> z.central_directory,
                                    size |-> DirectorySize(z.central_directory)])]
          we == writeEndRecord(z1, generateEndRecord(z1))
      IN  IF we.err # "none" THEN Threw([z1 EXCEPT !.out_file = we.out_file], we.err)
          ELSE Returned([z1 EXCEPT !.out_file = StreamClose(we.out_file),
                                   !.opened = FALSE, !.next_offset = Zero32,
                                   !.central_directory = <<>>, !.num_files = 0])

\* IttyZip::finalize
finalize(z) ==
    IF z.num_files = 0 \/ z.next_offset = Zero32 \/ z.central_directory = <<>>
    THEN Threw(z, "EMPTY_FINALIZE_MESG")
    ELSE IF ~z.opened THEN Threw(z, "NOT_OPENED_MESG")
    ELSE IF ~z.out_file.is_open THEN Threw(z, "UNEXPECTED_CLOSE_MESG")
    ELSE IF z.out_file.fail THEN Threw(z, "OUTPUT_FAIL_MESG")
    ELSE
      LET z1 == [z EXCEPT !.out_file =
                    StreamWrite(@, [kind |-> "central_directory",
                                    entries |-> z.central_directory,
                                    size |-> DirectorySize(z.central_directory)])]
          we == writeEndRecord(z1, generateEndRecord(z1))
      IN  IF we.err # "none" THEN Threw([z1 EXCEPT !.out_file = we.out_file], we.err)
          ELSE Returned([z1 EXCEPT !.out_file = StreamClose(we.out_file),
                                   !.opened = FALSE, !.next_offset = Zero32,
                                   !.central_directory = <<>>, !.num_files = 0])

----------------------------------------------------------------------------
(* IttyZip with its collections held by their sizes.  An archive of 65536   *)
(* entries is out of reach with the directory buffer, the name set and the  *)
(* output file written out in full, so the long-archive scenario keeps      *)
(* central_directory.size() for central_directory, the number of names for  *)
(* filenames, and the write position and the last end record for out_file.  *)
(* Its caller names the entries f100001, f100002, ... in that order, so the *)
(* name set is {FilledName(i) : i \in 1..filenames_size}.                   *)

FilledName(i) == Lit("f" \o ToString(100000 + i))

NoEndRecord == [signature |-> Zero32]

ClosedStream_Counted ==
    [is_open |-> FALSE, fail |-> FALSE, tellp |-> 0, end_record |-> NoEndRecord]

\* IttyZip::IttyZip(void)
NewIttyZip_Counted ==
    [num_files |-> 0, opened |-> FALSE, next_offset |-> Zero32,
     central_directory_size |-> 0, filenames_size |-> 0,
     out_file |-> ClosedStream_Counted]

\* IttyZip::open
open_Counted(z, outputFilename) ==
    IF z.opened \/ z.out_file.is_open THEN Threw(z, "DOUBLE_OPEN_MESG")
    ELSE LET reset == [z EXCEPT !.opened = FALSE, !.num_files = 0,
                                !.next_offset = Zero32, !.central_directory_size = 0,
                                !.out_file =
                                    IF outputFilename \in WritablePaths
                                    THEN [is_open |-> TRUE, fail |-> FALSE, tellp |-> 0,
                                          end_record |-> NoEndRecord]
                                    ELSE [@ EXCEPT !.fail = TRUE]]
         IN  IF ~reset.out_file.is_open THEN Threw(reset, "CANNOT_OPEN_MESG")
             ELSE Returned([reset EXCEPT !.opened = TRUE])

\* IttyZip::addFile(FilledName(k), "")
addFile_Counted(z, k, timestruct) ==
    IF ~z.opened THEN Threw(z, "NOT_OPENED_MESG")
    ELSE IF ~z.out_file.is_open THEN Threw(z, "UNEXPECTED_CLOSE_MESG")
    ELSE IF z.out_file.fail THEN Threw(z, "OUTPUT_FAIL_MESG")
    ELSE
      LET contents == <<>>
          file_headers == generateHeaders(z, FilledName(k), ToU32(Len(contents)),
                                          crc32(contents), timestruct)
          count == Add32(ToU32(30), ToU32(file_headers.first.filename_length))
      IN  IF k \in 1..z.filenames_size
          THEN Threw(z, "DUPLICATE_FILE_MESG")
          ELSE Returned(
                 [z EXCEPT
                    !.filenames_size = @ + 1,
                    !.central_directory_size = @ + DirheaderSize(file_headers.second),
                    !.out_file.tellp = @ + 30 + file_headers.first.filename_length
                                         + Len(contents),
                    !.next_offset = Add32(Add32(@, count), ToU32(Len(contents))),
                    !.num_files = ToU16(@ + 1)])

\* IttyZip::generateEndRecord
generateEndRecord_Counted(z) ==
    [signature |-> <<1541, 19280>>, disk_number |-> 0, dir_start_disk_number |-> 0,
     this_disk_entries |-> z.num_files, total_entries |-> z.num_files,
     central_dir_size |-> ToU32(z.central_directory_size),
     central_dir_offset |-> z.next_offset, comment_length |-> 0]

\* IttyZip::finalize
finalize_Counted(z) ==
    IF z.num_files = 0 \/ z.next_offset = Zero32 \/ z.central_directory_size = 0
    THEN Threw(z, "EMPTY_FINALIZE_MESG")
    ELSE IF ~z.opened THEN Threw(z, "NOT_OPENED_MESG")
    ELSE IF ~z.out_file.is_open THEN Threw(z, "UNEXPECTED_CLOSE_MESG")
    ELSE IF z.out_file.fail THEN Threw(z, "OUTPUT_FAIL_MESG")
    ELSE Returned([z EXCEPT !.out_file =
                                [is_open |-> FALSE, fail |-> FALSE,
                                 tellp |-> @.tellp + z.central_directory_size + 22,
                                 end_record |-> generateEndRecord_Counted(z)],
                            !.opened = FALSE, !.next_offset = Zero32,
                            !.central_directory_size = 0, !.num_files = 0])

\* a fresh writer and no successful addFile yet
NewCounted == [z |-> NewIttyZip_Counted, n |-> 0]

----------------------------------------------------------------------------
(* The stand-alone archive scenario: a caller drives one IttyZip object *)

\* Workbook::Workbook(void)
NewWorkbook == [sheets |-> <<>>, cell_styles |-> <<>>]

NoArg == EmptyString
NoCall == [op |-> "none", err |-> "none", arg |-> NoArg]

\* entry names a caller passes: three short ones, and two longer than 65535 bytes
NameA == Lit("a")
NameDoc == Lit("doc.xml")
NameRels == Lit("_rels/.rels")
NameLong == [text |-> "a", rep |-> 65537]
NameLong0 == [text |-> "b", rep |-> 65536]
Names == {NameA, NameDoc, NameRels, NameLong, NameLong0}

\* entry contents a caller passes: "" and "ab"
Contents == {<<>>, <<97, 98>>}

\* paths a caller passes: a writable one and one that cannot be created
Paths == {"book.xlsx", "/no/such/dir/book.xlsx"}

\* what localtime returns when an entry is added
Clocks == {[tm_year |-> 126, tm_mon |-> 10, tm_mday |-> 2,
            tm_hour |-> 13, tm_min |-> 37, tm_sec |-> 60]}

Init ==
    /\ archive = NewIttyZip
    /\ added = <<>>
    /\ zret = NoCall
    /\ wb = NewWorkbook
    /\ wret = NoCall
    /\ counted = NewCounted
    /\ refs = <<>>

Open(outputFilename) ==
    LET r == open(archive, outputFilename)
    IN  /\ archive' = r.z
        /\ added' = IF r.err = "DOUBLE_OPEN_MESG" THEN added ELSE <<>>
        /\ zret' = [op |-> "open", err |-> r.err, arg |-> NoArg]
        /\ UNCHANGED <<wb, wret, counted, refs>>

AddFile(filename, contents, timestruct) ==
    LET r == addFile(archive, filename, contents, timestruct)
    IN  /\ Len(archive.central_directory) < MaxFiles
        /\ archive' = r.z
        /\ added' = IF r.err = "none" THEN Append(added, <<filename, contents>>) ELSE added
        /\ zret' = [op |-> "addFile", err |-> r.err, arg |-> filename]
        /\ UNCHANGED <<wb, wret, counted, refs>>

Finalize ==
    LET r == finalize(archive)
    IN  /\ archive' = r.z
        /\ zret' = [op |-> "finalize", err |-> r.err, arg |-> NoArg]
        /\ UNCHANGED <<added, wb, wret, counted, refs>>

\* the environment: a write error puts the open output stream in its failed state
StreamFails ==
    /\ archive.out_file.is_open
    /\ ~archive.out_file.fail
    /\ archive' = [archive EXCEPT !.out_file.fail = TRUE]
    /\ zret' = [op |-> "stream error", err |-> "none", arg |-> NoArg]
    /\ UNCHANGED <<added, wb, wret, counted, refs>>

Next ==
    \/ \E outputFilename \in Paths : Open(outputFilename)
    \/ \E filename \in Names, contents \in Contents, timestruct \in Clocks :
          AddFile(filename, contents, timestruct)
    \/ Finalize
    \/ StreamFails

Spec == Init /\ [][Next]_vars

----------------------------------------------------------------------------
(* The long-archive scenario: a caller opens one writer, adds empty entries *)
(* under the names f100001, f100002, ..., and finalizes.                    *)

InitCounted == Init

\* open(), called before anything has been added
OpenCounted(outputFilename) ==
    LET r == open_Counted(counted.z, outputFilename)
    IN  /\ counted.z.filenames_size = 0
        /\ counted' = [z |-> r.z, n |-> IF r.err = "DOUBLE_OPEN_MESG" THEN counted.n ELSE 0]
        /\ zret' = [op |-> "open", err |-> r.err, arg |-> NoArg]
        /\ UNCHANGED <<archive, added, wb, wret, refs>>

\* addFile() with the next unused name, or with the first name again
AddFileCounted(k, timestruct) ==
    LET r == addFile_Counted(counted.z, k, timestruct)
    IN  /\ counted.z.filenames_size < TwoTo16 + MaxFiles
        /\ counted' = [z |-> r.z, n |-> IF r.err = "none" THEN counted.n + 1 ELSE counted.n]
        /\ zret' = [op |-> "addFile", err |-> r.err, arg |-> FilledName(k)]
        /\ UNCHANGED <<archive, added, wb, wret, refs>>

FinalizeCounted ==
    LET r == finalize_Counted(counted.z)
    IN  /\ counted' = [counted EXCEPT !.z = r.z]
        /\ zret' = [op |-> "finalize", err |-> r.err, arg |-> NoArg]
        /\ UNCHANGED <<archive, added, wb, wret, refs>>

NextCounted ==
    \/ \E outputFilename \in Paths : OpenCounted(outputFilename)
    \/ \E timestruct \in Clocks :
          \E k \in {1, counted.z.filenames_size + 1} : AddFileCounted(k, timestruct)
    \/ FinalizeCounted

SpecCounted == InitCounted /\ [][NextCounted]_vars

----------------------------------------------------------------------------
(* BasicWorkbook: cell references, styles and cells *)

MAX_ROW == 1048576
MAX_COL == 16384

\* the limits add_formula_cell and add_string_cell test against; their
\* declarations are in a header that is not part of the sources at hand
MAX_FORMULA_LEN == 8192
MAX_STRING_LEN == 32767
MAX_STRING_LINE_BREAKS == 253

\* a double: a number, or quiet_NaN
Double(number) == [nan |-> FALSE, number |-> number]
quiet_NaN == [nan |-> TRUE, number |-> 0]

generic_style ==
    [num_format |-> "GENERAL", horiz_align |-> "GENERAL", vert_align |-> "BOTTOM",
     wrap_text |-> FALSE, bold |-> FALSE]
generic_string_style ==
    [num_format |-> "TEXT", horiz_align |-> "GENERAL", vert_align |-> "BOTTOM",
     wrap_text |-> FALSE, bold |-> FALSE]

\* operator==(const cell_style_t &, const cell_style_t &)
StyleEquals(lhs, rhs) ==
    /\ lhs.num_format = rhs.num_format
    /\ lhs.horiz_align = rhs.horiz_align
    /\ lhs.vert_align = rhs.vert_align
    /\ lhs.wrap_text = rhs.wrap_text
    /\ lhs.bold = rhs.bold

\* a comparison that orders the cells by column first and by row second
cell_sort_compare_ColumnMajor(a, b) ==
    \/ a.integerref.col < b.integerref.col
    \/ (a.integerref.col = b.integerref.col /\ a.integerref.row < b.integerref.row)

\* cell_sort_compare::operator()
cell_sort_compare(a, b) ==
    \/ a.integerref.row < b.integerref.row
    \/ (a.integerref.row = b.integerref.row /\ a.integerref.col < b.integerref.col)

\* merged_cell_sort_compare::operator()
merged_cell_sort_compare(a, b) ==
    \/ a.start_ref.row < b.start_ref.row
    \/ (a.start_ref.row = b.start_ref.row /\ a.start_ref.col < b.start_ref.col)

\* std::set::insert under a comparator: an element equivalent to x keeps its
\* place and x is dropped
SetInsert(set, x, Less(_, _)) ==
    IF \E e \in set : ~Less(e, x) /\ ~Less(x, e)
    THEN [set |-> set, second |-> FALSE]
    ELSE [set |-> set \cup {x}, second |-> TRUE]

\* the test all the cell operations make on a reference
InvalidRef(integerref) ==
    \/ integerref.col < 1
    \/ integerref.col > MAX_COL
    \/ integerref.row < 1
    \/ integerref.row > MAX_ROW

\* std::count(value.begin(), value.end(), '\n') for the values the model passes
CountLineBreaks(value) == IF value.text = "\n" THEN value.rep ELSE 0

----------------------------------------------------------------------------
(* BasicWorkbook: Workbook and Sheet.  A Sheet is addressed by its position *)
(* s in Workbook::sheets.                                                   *)

\* Sheet::Sheet
NewSheet(name_, filename_, sheetId_, relId_) ==
    [name |-> name_, filename |-> filename_, sheetId |-> sheetId_, relId |-> relId_,
     used_columns |-> {}, column_widths |-> {}, row_heights |-> {},
     cells |-> {}, merged_cells |-> {}]

BookReturned(workbook) == [wb |-> workbook, err |-> "none"]
BookThrew(workbook, mesg) == [wb |-> workbook, err |-> mesg]

\* std::find(cell_styles.begin(), cell_styles.end(), cell_style), as a position
\* from 1; Len + 1 stands for cell_styles.end()
FindStyle(cell_styles, cell_style) ==
    LET hits == {j \in 1..Len(cell_styles) : StyleEquals(cell_styles[j], cell_style)}
    IN  IF hits = {} THEN Len(cell_styles) + 1
        ELSE CHOOSE j \in hits : \A other \in hits : j <= other

\* an addStyle that appends without looking for an equal style
addStyle_AlwaysAppends(workbook, cell_style) ==
    [wb |-> [workbook EXCEPT !.cell_styles = Append(@, cell_style)],
     index |-> Len(workbook.cell_styles) + 1 - 1]

\* Workbook::addStyle: the workbook afterwards and the index returned
addStyle(workbook, cell_style) ==
    LET itr == FindStyle(workbook.cell_styles, cell_style)
    IN  IF itr = Len(workbook.cell_styles) + 1
        THEN [wb |-> [workbook EXCEPT !.cell_styles = Append(@, cell_style)],
              index |-> Len(workbook.cell_styles) + 1 - 1]
        ELSE [wb |-> workbook, index |-> itr - 1]

\* a tail whose insert replaces the cell already at the reference
InsertCell_Overwrites(workbook, s, cell, function) ==
    BookReturned([workbook EXCEPT
                    !.sheets[s].cells =
                        {c \in @ : cell_sort_compare(c, cell) \/ cell_sort_compare(cell, c)}
                          \cup {cell},
                    !.sheets[s].used_columns = @ \cup {cell.integerref.col}])

\* the tail shared by the add_*_cell functions: cells.insert, the throw on a
\* duplicate, used_columns.insert
InsertCell(workbook, s, cell, function) ==
    LET insret == SetInsert(workbook.sheets[s].cells, cell, cell_sort_compare)
    IN  IF ~insret.second
        THEN BookThrew(workbook, function \o "() encountered duplicate insertion of a cell at the same reference.")
        ELSE BookReturned([workbook EXCEPT
                             !.sheets[s].cells = insret.set,
                             !.sheets[s].used_columns = @ \cup {cell.integerref.col}])

\* an add_number_cell that looks for a cell at the reference before it
\* registers the style
add_number_cell_StyleAfterDuplicateTest(workbook, s, integerref, number, cell_style) ==
    IF InvalidRef(integerref)
    THEN BookThrew(workbook, "add_number_cell() received an invalid cell reference.")
    ELSE IF \E c \in workbook.sheets[s].cells : c.integerref = integerref
    THEN BookThrew(workbook, "add_number_cell() encountered duplicate insertion of a cell at the same reference.")
    ELSE LET styled == addStyle(workbook, cell_style)
             cell == [integerref |-> integerref, type |-> "NUMBER",
                      style_index |-> styled.index, num_val |-> number,
                      str_fml_val |-> EmptyString]
         IN  InsertCell(styled.wb, s, cell, "add_number_cell")

\* Sheet::add_number_cell(integerref, number, cell_style)
add_number_cell(workbook, s, integerref, number, cell_style) ==
    IF InvalidRef(integerref)
    THEN BookThrew(workbook, "add_number_cell() received an invalid cell reference.")
    ELSE LET styled == addStyle(workbook, cell_style)
             cell == [integerref |-> integerref, type |-> "NUMBER",
                      style_index |-> styled.index, num_val |-> number,
                      str_fml_val |-> EmptyString]
         IN  InsertCell(styled.wb, s, cell, "add_number_cell")

\* Sheet::add_formula_cell(integerref, formula, cell_style)
add_formula_cell(workbook, s, integerref, formula, cell_style) ==
    IF InvalidRef(integerref)
    THEN BookThrew(workbook, "add_formula_cell() received an invalid cell reference.")
    ELSE IF StrSize(formula) > MAX_FORMULA_LEN
    THEN BookThrew(workbook, "the formula supplied to add_formula_cell() is too long.")
    ELSE LET styled == addStyle(workbook, cell_style)
             cell == [integerref |-> integerref, type |-> "FORMULA",
                      style_index |-> styled.index, num_val |-> quiet_NaN,
                      str_fml_val |-> formula]
         IN  InsertCell(styled.wb, s, cell, "add_formula_cell")

\* Sheet::add_string_cell(integerref, value, cell_style)
add_string_cell(workbook, s, integerref, value, cell_style) ==
    IF InvalidRef(integerref)
    THEN BookThrew(workbook, "add_string_cell() received an invalid cell reference.")
    ELSE IF StrSize(value) > MAX_STRING_LEN
    THEN BookThrew(workbook, "the string value supplied to add_string_cell() is too long.")
    ELSE IF CountLineBreaks(value) > MAX_STRING_LINE_BREAKS
    THEN BookThrew(workbook, "the string value supplied to add_string_cell() contains too many line breaks.")
    ELSE LET styled == addStyle(workbook, cell_style)
             cell == [integerref |-> integerref, type |-> "STRING",
                      style_index |-> styled.index, num_val |-> quiet_NaN,
                      str_fml_val |-> value]
         IN  InsertCell(styled.wb, s, cell, "add_string_cell")

\* an add_empty_cell that returns quietly when the reference is occupied
add_empty_cell_IgnoresDuplicate(workbook, s, integerref, cell_style) ==
    IF InvalidRef(integerref)
    THEN BookThrew(workbook, "add_empty_cell() received an invalid cell reference.")
    ELSE LET styled == addStyle(workbook, cell_style)
             cell == [integerref |-> integerref, type |-> "EMPTY",
                      style_index |-> styled.index, num_val |-> quiet_NaN,
                      str_fml_val |-> EmptyString]
             r == InsertCell(styled.wb, s, cell, "add_empty_cell")
         IN  IF r.err # "none" THEN BookReturned(styled.wb) ELSE r

\* Sheet::add_empty_cell
add_empty_cell(workbook, s, integerref, cell_style) ==
    IF InvalidRef(integerref)
    THEN BookThrew(workbook, "add_empty_cell() received an invalid cell reference.")
    ELSE LET styled == addStyle(workbook, cell_style)
             cell == [integerref |-> integerref, type |-> "EMPTY",
                      style_index |-> styled.index, num_val |-> quiet_NaN,
                      str_fml_val |-> EmptyString]
         IN  InsertCell(styled.wb, s, cell, "add_empty_cell")

RECURSIVE add_empty_cells(_, _, _, _, _, _, _)
\* the two nested loops of the add_merged_*_cell functions, entered at
\* (jRow, jCol): add_empty_cell at every reference but start_ref, row by row,
\* until one throws
add_empty_cells(workbook, s, start_ref, end_ref, jRow, jCol, cell_style) ==
    IF jRow > end_ref.row THEN BookReturned(workbook)
    ELSE IF jCol > end_ref.col
    THEN add_empty_cells(workbook, s, start_ref, end_ref, jRow + 1, start_ref.col, cell_style)
    ELSE IF jRow = start_ref.row /\ jCol = start_ref.col
    THEN add_empty_cells(workbook, s, start_ref, end_ref, jRow, jCol + 1, cell_style)
    ELSE LET r == add_empty_cell(workbook, s, [row |-> jRow, col |-> jCol], cell_style)
         IN  IF r.err # "none" THEN r
             ELSE add_empty_cells(r.wb, s, start_ref, end_ref, jRow, jCol + 1, cell_style)

\* argument tests that want the end corner strictly below and strictly right
\* of the start corner
MergedArgumentError_EndStrictlyBelowRight(start_ref, end_ref, function) ==
    IF InvalidRef(start_ref)
    THEN function \o "() received an invalid starting cell reference."
    ELSE IF InvalidRef(end_ref)
    THEN function \o "() received an invalid ending cell reference."
    ELSE IF start_ref.col >= end_ref.col \/ start_ref.row >= end_ref.row
    THEN function \o "() received an ending cell reference equal or prior to its starting cell reference."
    ELSE "none"

\* the argument tests of the add_merged_*_cell functions; "none" when they pass
MergedArgumentError(start_ref, end_ref, function) ==
    IF InvalidRef(start_ref)
    THEN function \o "() received an invalid starting cell reference."
    ELSE IF InvalidRef(end_ref)
    THEN function \o "() received an invalid ending cell reference."
    ELSE IF \/ start_ref.col > end_ref.col
            \/ start_ref.row > end_ref.row
            \/ (start_ref.col = end_ref.col /\ start_ref.row = end_ref.row)
    THEN function \o "() received an ending cell reference equal or prior to its starting cell reference."
    ELSE "none"

\* a merge step that records the region without filling the rectangle
AddEmptyCellsAndMerge_NoFill(started, s, start_ref, end_ref, cell_style) ==
    IF started.err # "none" THEN started
    ELSE BookReturned(
           [started.wb EXCEPT !.sheets[s].merged_cells =
               SetInsert(@, [start_ref |-> start_ref, end_ref |-> end_ref],
                         merged_cell_sort_compare).set])

\* a merge step that, when an add_empty_cell throws, takes back the Empty cells
\* the loops had added
AddEmptyCellsAndMerge_TakesBackFill(started, s, start_ref, end_ref, cell_style) ==
    IF started.err # "none" THEN started
    ELSE LET filled == add_empty_cells(started.wb, s, start_ref, end_ref,
                                       start_ref.row, start_ref.col, cell_style)
         IN  IF filled.err # "none" THEN BookThrew(started.wb, filled.err)
             ELSE BookReturned(
                    [filled.wb EXCEPT !.sheets[s].merged_cells =
                        SetInsert(@, [start_ref |-> start_ref, end_ref |-> end_ref],
                                  merged_cell_sort_compare).set])

\* what the add_merged_*_cell functions do once the start cell is added: the
\* loops, then merged_cells.insert
AddEmptyCellsAndMerge(started, s, start_ref, end_ref, cell_style) ==
    IF started.err # "none" THEN started
    ELSE LET filled == add_empty_cells(started.wb, s, start_ref, end_ref,
                                       start_ref.row, start_ref.col, cell_style)
         IN  IF filled.err # "none" THEN filled
             ELSE BookReturned(
                    [filled.wb EXCEPT !.sheets[s].merged_cells =
                        SetInsert(@, [start_ref |-> start_ref, end_ref |-> end_ref],
                                  merged_cell_sort_compare).set])

\* Sheet::add_merged_number_cell(start_ref, end_ref, number, cell_style)
add_merged_number_cell(workbook, s, start_ref, end_ref, number, cell_style) ==
    LET mesg == MergedArgumentError(start_ref, end_ref, "add_merged_number_cell")
    IN  IF mesg # "none" THEN BookThrew(workbook, mesg)
        ELSE AddEmptyCellsAndMerge(add_number_cell(workbook, s, start_ref, number, cell_style),
                                   s, start_ref, end_ref, cell_style)

\* Sheet::add_merged_formula_cell(start_ref, end_ref, formula, cell_style)
add_merged_formula_cell(workbook, s, start_ref, end_ref, formula, cell_style) ==
    LET mesg == MergedArgumentError(start_ref, end_ref, "add_merged_formula_cell")
    IN  IF mesg # "none" THEN BookThrew(workbook, mesg)
        ELSE AddEmptyCellsAndMerge(add_formula_cell(workbook, s, start_ref, formula, cell_style),
                                   s, start_ref, end_ref, cell_style)

\* Sheet::add_merged_string_cell(start_ref, end_ref, value, cell_style)
add_merged_string_cell(workbook, s, start_ref, end_ref, value, cell_style) ==
    LET mesg == MergedArgumentError(start_ref, end_ref, "add_merged_string_cell")
    IN  IF mesg # "none" THEN BookThrew(workbook, mesg)
        ELSE AddEmptyCellsAndMerge(add_string_cell(workbook, s, start_ref, value, cell_style),
                                   s, start_ref, end_ref, cell_style)

----------------------------------------------------------------------------
(* BasicWorkbook: rendering a sheet.  A std::string of text is a sequence   *)
(* of character codes; the sheet's XML is a sequence of elements            *)
(* [tag, ref, n, val].                                                       *)

RECURSIVE to_string(_)
\* std::to_string of an unsigned integer
to_string(n) ==
    IF n < 10 THEN <<48 + n>> ELSE Append(to_string(n \div 10), 48 + (n % 10))

RECURSIVE integer_to_column_loop_PlainBase26(_, _)
\* a loop that takes the digits of plain base 26, where a remainder of 0 is
\* the character before 'A' and nothing is borrowed from the quotient
integer_to_column_loop_PlainBase26(integer, column) ==
    IF integer > 0
    THEN integer_to_column_loop_PlainBase26(integer \div 26, <<(integer % 26) + 64>> \o column)
    ELSE column

RECURSIVE integer_to_column_loop(_, _)
\* the while loop of integer_to_column
integer_to_column_loop(integer, column) ==
    IF integer > 0
    THEN LET remainder == integer % 26
             next == (integer - 1) \div 26
         IN  IF remainder = 0
             THEN integer_to_column_loop(next, <<90>> \o column)
             ELSE integer_to_column_loop(next, <<remainder + 64>> \o column)
    ELSE column

\* integer_to_column: the letters, or what it threw
integer_to_column(integer) ==
    IF integer = 0
    THEN [column |-> <<>>, err |-> "integer_to_column() received an input of 0."]
    ELSE IF integer > MAX_COL
    THEN [column |-> <<>>, err |-> "integer_to_column() received a too large column index."]
    ELSE [column |-> integer_to_column_loop(integer, <<>>), err |-> "none"]

\* std::toupper and std::isupper of a character code
toupper(c) == IF c >= 97 /\ c <= 122 THEN c - 32 ELSE c
isupper(c) == c >= 65 /\ c <= 90

\* 26u * a in uint32_t arithmetic
Mul26_32(a) ==
    LET lo == 26 * a[2]
        hi == 26 * a[1] + (lo \div TwoTo16)
    IN  <<hi % TwoTo16, lo % TwoTo16>>

RECURSIVE column_to_integer_loop(_, _, _)
\* the for loop of column_to_integer over all characters but the last, entered
\* at character jChar (from 1) with the uint32_t integer
column_to_integer_loop(column, jChar, integer) ==
    IF jChar > Len(column) - 1 THEN [integer |-> integer, err |-> "none"]
    ELSE IF ~isupper(toupper(column[jChar]))
    THEN [integer |-> integer,
          err |-> "column_to_integer() received non-alphabetic input character."]
    ELSE column_to_integer_loop(column, jChar + 1,
             Mul26_32(Add32(integer, ToU32(toupper(column[jChar]) - 64))))

\* column_to_integer: the index, or what it threw
column_to_integer(column) ==
    IF column = <<>>
    THEN [integer |-> 0, err |-> "column_to_integer() received empty input string."]
    ELSE LET looped == column_to_integer_loop(column, 1, Zero32)
             last_char == toupper(column[Len(column)])
             integer == Add32(looped.integer, ToU32(last_char - 64))
         IN  IF looped.err # "none" THEN [integer |-> 0, err |-> looped.err]
             ELSE IF ~isupper(last_char)
             THEN [integer |-> 0,
                   err |-> "column_to_integer() received non-alphabetic input character."]
             ELSE IF integer[1] > 0 \/ integer[2] > MAX_COL
             THEN [integer |-> 0,
                   err |-> "column_to_integer() received a too large column index."]
             ELSE [integer |-> integer[2], err |-> "none"]

\* integerref_to_mixedref(integerref): the text, or what it threw
integerref_to_mixedref(integerref) ==
    IF InvalidRef(integerref)
    THEN [mixedref |-> <<>>,
          err |-> "integerref_to_mixedref() received an invalid cell reference."]
    ELSE [mixedref |-> integer_to_column(integerref.col).column \o to_string(integerref.row),
          err |-> "none"]

Element(tag, ref, n, val) == [tag |-> tag, ref |-> ref, n |-> n, val |-> val]
NoValue == [num_val |-> quiet_NaN, str_fml_val |-> EmptyString]

RECURSIVE ColumnsInOrder(_)
\* iteration of a std::set<uint32_t>
ColumnsInOrder(columns) ==
    IF columns = {} THEN <<>>
    ELSE LET first == CHOOSE c \in columns : \A other \in columns : c <= other
         IN  <<first>> \o ColumnsInOrder(columns \ {first})

RECURSIVE CellsInOrder(_)
\* iteration of a std::set<cell_t, cell_sort_compare>
CellsInOrder(cells) ==
    IF cells = {} THEN <<>>
    ELSE LET first == CHOOSE c \in cells : \A other \in cells \ {c} : cell_sort_compare(c, other)
         IN  <<first>> \o CellsInOrder(cells \ {first})

RECURSIVE MergedCellsInOrder(_)
\* iteration of a std::set<merged_cell_t, merged_cell_sort_compare>
MergedCellsInOrder(merged_cells) ==
    IF merged_cells = {} THEN <<>>
    ELSE LET first == CHOOSE m \in merged_cells :
                         \A other \in merged_cells \ {m} : merged_cell_sort_compare(m, other)
         IN  <<first>> \o MergedCellsInOrder(merged_cells \ {first})

\* std::set::find(std::make_pair(index, 0.0)) in column_widths or row_heights:
\* the elements equivalent to the key under the comparator on .first
FindByIndex(pairs, index) == {p \in pairs : ~(p[1] < index) /\ ~(index < p[1])}

\* generate_file: the <cols> part
generate_cols(sheet) ==
    LET used == ColumnsInOrder(sheet.used_columns)
    IN  <<Element("cols", <<>>, 0, NoValue)>>
        \o [j \in 1..Len(used) |->
              LET found == FindByIndex(sheet.column_widths, used[j])
              IN  IF found # {}
                  THEN Element("col customWidth", <<>>, used[j],
                               [NoValue EXCEPT !.num_val = (CHOOSE p \in found : TRUE)[2]])
                  ELSE Element("col bestFit", <<>>, used[j], NoValue)]
        \o <<Element("/cols", <<>>, 0, NoValue)>>

RECURSIVE generate_rows(_, _, _, _)
\* generate_file: the loop over the cells, entered at the j-th cell in order
\* with this_row the row whose <row> element is open (0: none)
generate_rows(sheet, ordered, j, this_row) ==
    IF j > Len(ordered) THEN <<>>
    ELSE
      LET this_cell == ordered[j]
          newrow == this_cell.integerref.row > this_row
          found == FindByIndex(sheet.row_heights, this_cell.integerref.row)
          opening ==
              IF newrow
              THEN (IF this_row > 0 THEN <<Element("/row", <<>>, 0, NoValue)>> ELSE <<>>)
                   \o <<IF found # {}
                        THEN Element("row customHeight", <<>>, this_cell.integerref.row,
                                     [NoValue EXCEPT !.num_val = (CHOOSE p \in found : TRUE)[2]])
                        ELSE Element("row", <<>>, this_cell.integerref.row, NoValue)>>
              ELSE <<>>
          mixedref == integerref_to_mixedref(this_cell.integerref).mixedref
          c == CASE this_cell.type = "NUMBER" ->
                      Element("c v", mixedref, this_cell.style_index,
                              [NoValue EXCEPT !.num_val = this_cell.num_val])
                 [] this_cell.type = "FORMULA" ->
                      Element("c f", mixedref, this_cell.style_index,
                              [NoValue EXCEPT !.str_fml_val = this_cell.str_fml_val])
                 [] this_cell.type = "STRING" ->
                      Element("c inlineStr", mixedref, this_cell.style_index,
                              [NoValue EXCEPT !.str_fml_val = this_cell.str_fml_val])
                 [] this_cell.type = "EMPTY" ->
                      Element("c", mixedref, this_cell.style_index, NoValue)
      IN  opening \o <<c>>
          \o generate_rows(sheet, ordered, j + 1,
                           IF newrow THEN this_cell.integerref.row ELSE this_row)

\* generate_file: the <mergeCells> part
generate_mergeCells(sheet) ==
    IF sheet.merged_cells # {}
    THEN LET ordered == MergedCellsInOrder(sheet.merged_cells)
         IN  <<Element("mergeCells", <<>>, Cardinality(sheet.merged_cells), NoValue)>>
             \o [j \in 1..Len(ordered) |->
                   Element("mergeCell",
                           integerref_to_mixedref(ordered[j].start_ref).mixedref
                             \o <<58>>
                             \o integerref_to_mixedref(ordered[j].end_ref).mixedref,
                           0, NoValue)]
             \o <<Element("/mergeCells", <<>>, 0, NoValue)>>
    ELSE <<>>

\* Sheet::generate_file
generate_file(sheet) ==
    <<Element("worksheet", <<>>, 0, NoValue),
      Element("sheetViews", <<>>, 0, NoValue),
      Element("sheetFormatPr", <<>>, 0, NoValue)>>
    \o generate_cols(sheet)
    \o (IF sheet.cells = {}
        THEN <<Element("sheetData/", <<>>, 0, NoValue)>>
        ELSE <<Element("sheetData", <<>>, 0, NoValue)>>
             \o generate_rows(sheet, CellsInOrder(sheet.cells), 1, 0)
             \o <<Element("/row", <<>>, 0, NoValue),
                  Element("/sheetData", <<>>, 0, NoValue)>>)
    \o generate_mergeCells(sheet)
    \o <<Element("/worksheet", <<>>, 0, NoValue)>>

----------------------------------------------------------------------------
(* BasicWorkbook: addSheet and publish *)

\* std::tolower of a character code
tolower(c) == IF c >= 65 /\ c <= 90 THEN c + 32 ELSE c

\* a comparison of names that tells letter cases apart
case_insensitive_same_ExactMatch(a, b) ==
    IF Len(a) # Len(b) THEN FALSE
    ELSE \A jChar \in 1..Len(a) : a[jChar] = b[jChar]

\* case_insensitive_same
case_insensitive_same(a, b) ==
    IF Len(a) # Len(b) THEN FALSE
    ELSE \A jChar \in 1..Len(a) : tolower(a[jChar]) = tolower(b[jChar])

\* an addSheet that gives every sheet the file name of the first
addSheet_SameFilename(workbook, name) ==
    IF name = <<>>
    THEN BookThrew(workbook, "addsheet() received an empty name for a new sheet.")
    ELSE IF \E jSheet \in 1..Len(workbook.sheets) :
               case_insensitive_same(name, workbook.sheets[jSheet].name)
    THEN BookThrew(workbook, "addSheet() received a new sheet with the same name as an existing sheet.")
    ELSE LET sheetId == Len(workbook.sheets) + 1
             sheet_filename == Lit("xl/worksheets/sheet1.xml")
             sheet_relId == "rId" \o ToString(sheetId + 1)
         IN  BookReturned([workbook EXCEPT !.sheets =
                              Append(@, NewSheet(name, sheet_filename, sheetId, sheet_relId))])

\* Workbook::addSheet; the Sheet& returned is the position Len(sheets) of the new sheet
addSheet(workbook, name) ==
    IF name = <<>>
    THEN BookThrew(workbook, "addsheet() received an empty name for a new sheet.")
    ELSE IF \E jSheet \in 1..Len(workbook.sheets) :
               case_insensitive_same(name, workbook.sheets[jSheet].name)
    THEN BookThrew(workbook, "addSheet() received a new sheet with the same name as an existing sheet.")
    ELSE LET sheetId == Len(workbook.sheets) + 1
             sheet_filename == Lit("xl/worksheets/sheet" \o ToString(sheetId) \o ".xml")
             sheet_relId == "rId" \o ToString(sheetId + 1)
         IN  BookReturned([workbook EXCEPT !.sheets =
                              Append(@, NewSheet(name, sheet_filename, sheetId, sheet_relId))])

\* the names of the parts publish writes before the sheets, in its order
FixedParts ==
    <<Lit("[Content_Types].xml"), Lit("_rels/.rels"), Lit("docProps/app.xml"),
      Lit("docProps/core.xml"), Lit("xl/_rels/workbook.xml.rels"),
      Lit("xl/styles.xml"), Lit("xl/workbook.xml")>>

\* every part's text starts with "<?xml"; the model passes its first two bytes
\* to addFile in place of the whole text
XmlHead == <<60, 63>>

\* Body at value, with value computed once
Bind(value, Body(_)) == CHOOSE result \in {Body(v) : v \in {value}} : TRUE

\* one archive.addFile call of publish, skipped once an earlier call has thrown;
\* st holds the archive, the history of successful calls and the last call
addPart(st, filename, contents, timestruct) ==
    Bind(st, LAMBDA before :
        IF before.err # "none" THEN before
        ELSE Bind(addFile(before.z, filename, contents, timestruct), LAMBDA r :
                 [z |-> r.z,
                  added |-> IF r.err = "none"
                            THEN Append(before.added, <<filename, contents>>)
                            ELSE before.added,
                  err |-> r.err,
                  zret |-> [op |-> "addFile", err |-> r.err, arg |-> filename]]))

RECURSIVE addFixedParts(_, _, _)
\* publish: the addFile calls for the parts j.. of FixedParts
addFixedParts(st, j, timestruct) ==
    IF j > Len(FixedParts) THEN st
    ELSE addFixedParts(addPart(st, FixedParts[j], XmlHead, timestruct), j + 1, timestruct)

RECURSIVE addSheetParts(_, _, _)
\* publish: while (!sheets.empty()) { addFile(sheets.back()...); sheets.pop_back(); }
addSheetParts(workbook, st, timestruct) ==
    Bind(<<workbook, st>>, LAMBDA before :
        IF before[2].err # "none" \/ before[1].sheets = <<>>
        THEN [wb |-> before[1], st |-> before[2]]
        ELSE Bind(addPart(before[2], before[1].sheets[Len(before[1].sheets)].filename,
                          XmlHead, timestruct),
                  LAMBDA st2 :
                      IF st2.err # "none" THEN [wb |-> before[1], st |-> st2]
                      ELSE addSheetParts([before[1] EXCEPT
                                              !.sheets = SubSeq(@, 1, Len(@) - 1)],
                                         st2, timestruct)))

\* a publish that closes the archive when one of its addFile calls throws
publishParts_ClosesOnThrow(workbook, opened, timestruct) ==
    Bind(addSheetParts(workbook, addFixedParts(opened, 1, timestruct), timestruct),
         LAMBDA parts :
             IF parts.st.err # "none"
             THEN [wb |-> parts.wb,
                   z |-> [parts.st.z EXCEPT !.opened = FALSE,
                                            !.out_file = StreamClose(@)],
                   added |-> parts.st.added,
                   zret |-> parts.st.zret, err |-> parts.st.err]
             ELSE Bind(finalize(parts.st.z), LAMBDA f :
                      [wb |-> [parts.wb EXCEPT !.sheets = <<>>], z |-> f.z,
                       added |-> parts.st.added,
                       zret |-> [op |-> "finalize", err |-> f.err, arg |-> NoArg],
                       err |-> f.err]))

\* publish once archive.open has been called: the addFile calls and finalize
publishParts(workbook, opened, timestruct) ==
    Bind(addSheetParts(workbook, addFixedParts(opened, 1, timestruct), timestruct),
         LAMBDA parts :
             IF parts.st.err # "none"
             THEN [wb |-> parts.wb, z |-> parts.st.z, added |-> parts.st.added,
                   zret |-> parts.st.zret, err |-> parts.st.err]
             ELSE Bind(finalize(parts.st.z), LAMBDA f :
                      [wb |-> [parts.wb EXCEPT !.sheets = <<>>], z |-> f.z,
                       added |-> parts.st.added,
                       zret |-> [op |-> "finalize", err |-> f.err, arg |-> NoArg],
                       err |-> f.err]))

\* Workbook::publish, on the workbook, its archive z and the archive's history
publish(workbook, z, history, last, filename, timestruct) ==
    IF workbook.sheets = <<>>
    THEN [wb |-> workbook, z |-> z, added |-> history, zret |-> last,
          err |-> "publish() called, but Workbook has no Sheets."]
    ELSE IF filename = ""
    THEN [wb |-> workbook, z |-> z, added |-> history, zret |-> last,
          err |-> "publish() called with empty filename."]
    ELSE Bind(open(z, filename), LAMBDA o :
             publishParts(workbook,
                          [z |-> o.z,
                           added |-> IF o.err = "DOUBLE_OPEN_MESG" THEN history ELSE <<>>,
                           err |-> o.err,
                           zret |-> [op |-> "open", err |-> o.err, arg |-> NoArg]],
                          timestruct))

----------------------------------------------------------------------------
(* BasicWorkbook: column widths and row heights *)

MIN_COL_WIDTH == 0
MAX_COL_WIDTH == 255
\* MIN_ROW_HEIGHT and MAX_ROW_HEIGHT are used by set_row_height and defined in
\* no file at hand; the values are those of the office suite the comment on
\* MIN_COL_WIDTH refers to, the upper one without its fraction
MIN_ROW_HEIGHT == 0
MAX_ROW_HEIGHT == 409

\* operator< on double: false when an operand is NaN
DoubleLess(a, b) == ~a.nan /\ ~b.nan /\ a.number < b.number

\* column_widths_sort_compare, on pairs <<index, width>>
column_widths_sort_compare(a, b) == a[1] < b[1]

\* row_heights_sort_compare, on pairs <<index, height>>
row_heights_sort_compare(a, b) == a[1] < b[1]

\* Sheet::set_column_width(col, width)
set_column_width(workbook, s, col, width) ==
    IF DoubleLess(width, Double(MIN_COL_WIDTH)) \/ DoubleLess(Double(MAX_COL_WIDTH), width)
    THEN BookThrew(workbook, "set_column_width() received invalid width argument.")
    ELSE IF col < 1 \/ col > MAX_COL
    THEN BookThrew(workbook, "set_column_width() received invalid col argument.")
    ELSE BookReturned([workbook EXCEPT !.sheets[s].column_widths =
                          SetInsert(@, <<col, width>>, column_widths_sort_compare).set])

\* Sheet::set_row_height(row, height)
set_row_height(workbook, s, row, height) ==
    IF DoubleLess(height, Double(MIN_ROW_HEIGHT)) \/ DoubleLess(Double(MAX_ROW_HEIGHT), height)
    THEN BookThrew(workbook, "set_row_height() received invalid height argument.")
    ELSE IF row < 1 \/ row > MAX_ROW
    THEN BookThrew(workbook, "set_row_height() received invalid row argument.")
    ELSE BookReturned([workbook EXCEPT !.sheets[s].row_heights =
                          SetInsert(@, <<row, height>>, row_heights_sort_compare).set])

----------------------------------------------------------------------------
(* The sheet scenario: a caller adds cells and merged cells to the one      *)
(* sheet of a workbook.                                                     *)

SheetS1 == <<83, 49>>

\* the references passed: Z1, AA1, Z2, AA2, and one outside the grid
GridRefs == {[row |-> row, col |-> col] : row \in {1, 2}, col \in {26, 27}}
Refs == GridRefs \cup {[row |-> 1, col |-> MAX_COL + 1]}

bold_style == [generic_style EXCEPT !.bold = TRUE]

\* the values passed, each with the style it is passed with
Numbers == {<<Double(1), generic_style>>, <<Double(2), bold_style>>}
Formulas == {<<Lit("=Z1"), generic_style>>}
Strings == {<<Lit("x"), bold_style>>}

DuplicateCellErrors ==
    {"add_number_cell() encountered duplicate insertion of a cell at the same reference.",
     "add_formula_cell() encountered duplicate insertion of a cell at the same reference.",
     "add_string_cell() encountered duplicate insertion of a cell at the same reference.",
     "add_empty_cell() encountered duplicate insertion of a cell at the same reference."}

\* the type of the exception that carries a message of the cell functions
ExceptionType(mesg) ==
    IF mesg = "none" THEN "none"
    ELSE IF mesg \in DuplicateCellErrors THEN "std::runtime_error"
    ELSE "std::invalid_argument"

\* the record of a cell call: plain or merged, and the type of what it threw
CellCall(op, err) == [op |-> op, err |-> ExceptionType(err), arg |-> NoArg]

InitSheet ==
    /\ archive = NewIttyZip
    /\ added = <<>>
    /\ zret = NoCall
    /\ wb = addSheet(NewWorkbook, SheetS1).wb
    /\ wret = [op |-> "addSheet", err |-> "none", arg |-> NoArg]
    /\ counted = NewCounted
    /\ refs = <<>>

AddNumberCell(s, integerref, number, cell_style) ==
    LET r == add_number_cell(wb, s, integerref, number, cell_style)
    IN  /\ wb' = r.wb
        /\ wret' = CellCall("plain addition", r.err)
        /\ UNCHANGED <<archive, added, zret, counted, refs>>

AddFormulaCell(s, integerref, formula, cell_style) ==
    LET r == add_formula_cell(wb, s, integerref, formula, cell_style)
    IN  /\ wb' = r.wb
        /\ wret' = CellCall("plain addition", r.err)
        /\ UNCHANGED <<archive, added, zret, counted, refs>>

AddStringCell(s, integerref, value, cell_style) ==
    LET r == add_string_cell(wb, s, integerref, value, cell_style)
    IN  /\ wb' = r.wb
        /\ wret' = CellCall("plain addition", r.err)
        /\ UNCHANGED <<archive, added, zret, counted, refs>>

AddMergedNumberCell(s, start_ref, end_ref, number, cell_style) ==
    LET r == add_merged_number_cell(wb, s, start_ref, end_ref, number, cell_style)
    IN  /\ wb' = r.wb
        /\ wret' = CellCall("merged addition", r.err)
        /\ UNCHANGED <<archive, added, zret, counted, refs>>

AddMergedFormulaCell(s, start_ref, end_ref, formula, cell_style) ==
    LET r == add_merged_formula_cell(wb, s, start_ref, end_ref, formula, cell_style)
    IN  /\ wb' = r.wb
        /\ wret' = CellCall("merged addition", r.err)
        /\ UNCHANGED <<archive, added, zret, counted, refs>>

AddMergedStringCell(s, start_ref, end_ref, value, cell_style) ==
    LET r == add_merged_string_cell(wb, s, start_ref, end_ref, value, cell_style)
    IN  /\ wb' = r.wb
        /\ wret' = CellCall("merged addition", r.err)
        /\ UNCHANGED <<archive, added, zret, counted, refs>>

NextSheet ==
    \E s \in 1..Len(wb.sheets) :
        \/ \E integerref \in Refs, number \in Numbers :
              AddNumberCell(s, integerref, number[1], number[2])
        \/ \E integerref \in Refs, formula \in Formulas :
              AddFormulaCell(s, integerref, formula[1], formula[2])
        \/ \E integerref \in Refs, value \in Strings :
              AddStringCell(s, integerref, value[1], value[2])
        \/ \E start_ref \in Refs, end_ref \in Refs, number \in Numbers :
              AddMergedNumberCell(s, start_ref, end_ref, number[1], number[2])
        \/ \E start_ref \in Refs, end_ref \in Refs, formula \in Formulas :
              AddMergedFormulaCell(s, start_ref, end_ref, formula[1], formula[2])
        \/ \E start_ref \in Refs, end_ref \in Refs, value \in Strings :
              AddMergedStringCell(s, start_ref, end_ref, value[1], value[2])

SpecSheet == InitSheet /\ [][NextSheet]_vars

----------------------------------------------------------------------------
(* The workbook scenario: a caller adds sheets to a Workbook, puts a cell   *)
(* on some of them, and publishes.                                          *)

MaxSheets == 2

\* the sheet names passed: "", "S1", "s1" and "T"
SheetNames == {<<>>, SheetS1, <<115, 49>>, <<84>>}

\* the file names passed to publish
PublishPaths == {"book.xlsx", "other.xlsx", "", "/no/such/dir/book.xlsx"}

AddSheet(name) ==
    LET r == addSheet(wb, name)
    IN  /\ Len(wb.sheets) < MaxSheets
        /\ wb' = r.wb
        /\ wret' = [op |-> "addSheet", err |-> r.err, arg |-> NoArg]
        /\ UNCHANGED <<archive, added, zret, counted, refs>>

Publish(filename, timestruct) ==
    \E r \in {publish(wb, archive, added, zret, filename, timestruct)} :
        /\ wb' = r.wb
        /\ archive' = r.z
        /\ added' = r.added
        /\ zret' = r.zret
        /\ wret' = [op |-> "publish", err |-> r.err, arg |-> Lit(filename)]
        /\ UNCHANGED <<counted, refs>>

NextBook ==
    \/ \E name \in SheetNames : AddSheet(name)
    \/ \E s \in 1..Len(wb.sheets) :
          AddNumberCell(s, [row |-> 1, col |-> 26], Double(1), generic_style)
    \/ \E filename \in PublishPaths, timestruct \in Clocks : Publish(filename, timestruct)

SpecBook == Init /\ [][NextBook]_vars

----------------------------------------------------------------------------
(* Reading back what the archive writer wrote *)

RECURSIVE ChunkRangeSize(_, _, _)
ChunkRangeSize(bytes, lo, hi) ==
    IF lo > hi THEN 0
    ELSE IF lo = hi THEN ChunkSize(bytes[lo])
    ELSE LET mid == (lo + hi) \div 2
         IN  ChunkRangeSize(bytes, lo, mid) + ChunkRangeSize(bytes, mid + 1, hi)

\* the byte position in the output file at which the i-th written chunk starts
BytePosition(bytes, i) == ChunkRangeSize(bytes, 1, i - 1)

\* finalize() has just returned: the file holds n header+contents pairs, the
\* directory and the end record
Finalized == zret.op = "finalize" /\ zret.err = "none"
WrittenDirectory == archive.out_file.bytes[Len(archive.out_file.bytes) - 1]
WrittenEndRecord == archive.out_file.bytes[Len(archive.out_file.bytes)].record

RECURSIVE AddedRangeSize(_, _)
\* the sum of 30 + name length + content length over the first k entries added
AddedRangeSize(entries, k) ==
    IF k = 0 THEN 0
    ELSE 30 + StrSize(entries[k][1]) + Len(entries[k][2]) + AddedRangeSize(entries, k - 1)

ShortNames == \A k \in 1..Len(added) : StrSize(added[k][1]) < TwoTo16
Below2To32(n) == n \div TwoTo16 < TwoTo16

\* C1: in a finalized archive (names shorter than 65536 bytes, output below
\* 2^32 bytes, no stream error) the offset stored in the k-th directory entry is
\* the byte position at which the k-th entry header starts, which is the sum of
\* 30 + name length + content length over the earlier entries, and the
\* directory offset of the end record is the byte position of the directory.
C1_OffsetsAreBytePositions ==
    (Finalized /\ ShortNames
       /\ Below2To32(BytePosition(archive.out_file.bytes, Len(archive.out_file.bytes) + 1)))
    => LET bytes == archive.out_file.bytes
       IN  /\ Len(bytes) = 2 * Len(added) + 2
           /\ Len(WrittenDirectory.entries) = Len(added)
           /\ \A k \in 1..Len(added) :
                /\ bytes[2 * k - 1].kind = "localheader"
                /\ WrittenDirectory.entries[k].local_header_offset
                     = ToU32(BytePosition(bytes, 2 * k - 1))
                /\ BytePosition(bytes, 2 * k - 1) = AddedRangeSize(added, k - 1)
           /\ WrittenDirectory.kind = "central_directory"
           /\ WrittenEndRecord.central_dir_offset
                = ToU32(BytePosition(bytes, Len(bytes) - 1))

C1_Witness ==
    Finalized /\ ShortNames /\ Len(added) >= 2 /\ Len(added[1][2]) > 0

\* C2: the directory written by finalize has one entry per successful addFile
\* since the last open, in call order, and the k-th entry carries the name, the
\* content length (as compressed and as uncompressed size) and the checksum of
\* the k-th call.
C2_DirectoryListsAddedEntries ==
    Finalized
    => /\ Len(WrittenDirectory.entries) = Len(added)
       /\ \A k \in 1..Len(added) :
            LET entry == WrittenDirectory.entries[k]
            IN  /\ entry.filename = added[k][1]
                /\ entry.filename_length = StrSize(added[k][1])
                /\ entry.size_compressed = ToU32(Len(added[k][2]))
                /\ entry.size_uncompressed = ToU32(Len(added[k][2]))
                /\ entry.crc32 = crc32(added[k][2])

\* the name under which addFile files an entry (generateHeaders' substr)
StoredName(filename) == StrPrefix(filename, ToU16(StrSize(filename)))

\* C3: open resets the set of used names: on a writer that was finalized and
\* opened again, addFile with a name not added since that open does not fail
\* with the duplicate-name error.
C3_OpenResetsNames ==
    (zret.op = "addFile" /\ zret.err = "DUPLICATE_FILE_MESG")
    => \E k \in 1..Len(added) : StoredName(added[k][1]) = StoredName(zret.arg)

C10_EmptyFinalizeRejected ==
    [][(zret'.op = "finalize" /\ archive.opened /\ added = <<>>)
       => (/\ zret'.err = "EMPTY_FINALIZE_MESG"
           /\ archive'.out_file.bytes = archive.out_file.bytes)]_vars

C10_Witness ==
    /\ zret.op = "finalize" /\ zret.err = "EMPTY_FINALIZE_MESG"
    /\ archive.opened /\ added = <<>> /\ archive.out_file.bytes = <<>>

\* C5: for every n >= 1, finalize on an open writer (stream not failed) after
\* n successful addFile calls succeeds, and both entry counts of the end record
\* equal n.
C5_EndRecordCountsEntries ==
    /\ (zret.op = "finalize" /\ zret.err = "EMPTY_FINALIZE_MESG" /\ counted.z.opened)
          => counted.n = 0
    /\ (zret.op = "finalize" /\ zret.err = "none")
          => /\ counted.z.out_file.end_record.this_disk_entries = counted.n
             /\ counted.z.out_file.end_record.total_entries = counted.n

----------------------------------------------------------------------------
(* Reading a sheet, and the calls of the sheet scenario as values *)

CellsAt(sheet, integerref) == {c \in sheet.cells : c.integerref = integerref}

\* the references of the rectangle start_ref..end_ref
Rectangle(start_ref, end_ref) ==
    {[row |-> row, col |-> col] : row \in start_ref.row..end_ref.row,
                                  col \in start_ref.col..end_ref.col}

\* the plain and the merged cell additions NextSheet makes; a plain one has
\* end_ref = start_ref
Payloads ==
    {[type |-> "NUMBER", num_val |-> number[1], str_fml_val |-> EmptyString,
      cell_style |-> number[2]] : number \in Numbers}
    \cup {[type |-> "FORMULA", num_val |-> quiet_NaN, str_fml_val |-> formula[1],
           cell_style |-> formula[2]] : formula \in Formulas}
    \cup {[type |-> "STRING", num_val |-> quiet_NaN, str_fml_val |-> value[1],
           cell_style |-> value[2]] : value \in Strings}

\* Sheet::add_number_cell, add_formula_cell or add_string_cell, by payload
AddCell(workbook, s, integerref, payload) ==
    CASE payload.type = "NUMBER" ->
            add_number_cell(workbook, s, integerref, payload.num_val, payload.cell_style)
      [] payload.type = "FORMULA" ->
            add_formula_cell(workbook, s, integerref, payload.str_fml_val, payload.cell_style)
      [] payload.type = "STRING" ->
            add_string_cell(workbook, s, integerref, payload.str_fml_val, payload.cell_style)

\* Sheet::add_merged_number_cell, add_merged_formula_cell or add_merged_string_cell
AddMergedCell(workbook, s, start_ref, end_ref, payload) ==
    CASE payload.type = "NUMBER" ->
            add_merged_number_cell(workbook, s, start_ref, end_ref,
                                   payload.num_val, payload.cell_style)
      [] payload.type = "FORMULA" ->
            add_merged_formula_cell(workbook, s, start_ref, end_ref,
                                    payload.str_fml_val, payload.cell_style)
      [] payload.type = "STRING" ->
            add_merged_string_cell(workbook, s, start_ref, end_ref,
                                   payload.str_fml_val, payload.cell_style)

\* the corners that pass the argument tests of the merged additions
ValidCorners ==
    {corners \in GridRefs \X GridRefs :
        /\ corners[1].row <= corners[2].row
        /\ corners[1].col <= corners[2].col
        /\ corners[1] # corners[2]}

\* the mixed form of the references of the grid, written out
MixedForm(integerref) ==
    (IF integerref.col = 26 THEN <<90>> ELSE <<65, 65>>)
    \o (IF integerref.row = 1 THEN <<49>> ELSE <<50>>)

\* C6: a sheet holds at most one cell per reference; an addition (plain, or
\* merged with corners that pass the argument tests) whose reference is
\* occupied fails with the duplicate-cell error whatever the two kinds; and
\* every cell of the sheet is still there, with its kind and value, after any
\* addition.
C6_OneCellPerReference ==
    \A s \in 1..Len(wb.sheets) :
        LET sheet == wb.sheets[s]
        IN  /\ \A c1 \in sheet.cells, c2 \in sheet.cells :
                  c1.integerref = c2.integerref => c1 = c2
            /\ \A integerref \in Refs, payload \in Payloads :
                  LET r == AddCell(wb, s, integerref, payload)
                  IN  /\ CellsAt(sheet, integerref) # {} => r.err \in DuplicateCellErrors
                      /\ sheet.cells \subseteq r.wb.sheets[s].cells
            /\ \A corners \in ValidCorners, payload \in Payloads :
                  LET r == AddMergedCell(wb, s, corners[1], corners[2], payload)
                  IN  /\ CellsAt(sheet, corners[1]) # {} => r.err \in DuplicateCellErrors
                      /\ sheet.cells \subseteq r.wb.sheets[s].cells

\* a plain addition has just failed as a duplicate on a sheet that holds cells
\* of two kinds
C6_Witness ==
    /\ wret.op = "plain addition"
    /\ wret.err = "std::runtime_error"
    /\ \E c1 \in wb.sheets[1].cells, c2 \in wb.sheets[1].cells :
          c1.type = "NUMBER" /\ c2.type = "STRING"

\* C7: after a merged addition that returned, the rectangle holds the start
\* cell with the kind, value and style passed and an Empty cell with the same
\* style index at every other reference; one region start..end has been
\* recorded, and generate_file emits one mergeCell element "start:end" for it.
\* And for every recorded region every reference other than start holds an
\* Empty cell with the style index of the start cell.
C7_MergedRectangleFilled ==
    \A s \in 1..Len(wb.sheets) :
        LET sheet == wb.sheets[s]
        IN  /\ \A corners \in Refs \X Refs, payload \in Payloads :
                  LET start_ref == corners[1]
                      end_ref == corners[2]
                      r == AddMergedCell(wb, s, start_ref, end_ref, payload)
                      after == r.wb.sheets[s]
                      file == generate_file(after)
                  IN  r.err = "none" =>
                        /\ \E c \in after.cells :
                              /\ c.integerref = start_ref
                              /\ c.type = payload.type
                              /\ c.num_val = payload.num_val
                              /\ c.str_fml_val = payload.str_fml_val
                              /\ r.wb.cell_styles[c.style_index + 1] = payload.cell_style
                              /\ \A integerref \in Rectangle(start_ref, end_ref) \ {start_ref} :
                                    \E e \in after.cells :
                                        /\ e.integerref = integerref
                                        /\ e.type = "EMPTY"
                                        /\ e.style_index = c.style_index
                        /\ \A c \in after.cells :
                              (c.integerref \in Rectangle(start_ref, end_ref) /\ c.type # "EMPTY")
                                 => c.integerref = start_ref
                        /\ after.merged_cells
                             = sheet.merged_cells \cup {[start_ref |-> start_ref, end_ref |-> end_ref]}
                        /\ Cardinality(after.merged_cells) = Cardinality(sheet.merged_cells) + 1
                        /\ Cardinality({j \in 1..Len(file) :
                                           /\ file[j].tag = "mergeCell"
                                           /\ file[j].ref = MixedForm(start_ref) \o <<58>>
                                                              \o MixedForm(end_ref)}) = 1
                        /\ Cardinality({j \in 1..Len(file) : file[j].tag = "mergeCell"})
                             = Cardinality(after.merged_cells)
            /\ \A m \in sheet.merged_cells :
                  \E c \in sheet.cells :
                      /\ c.integerref = m.start_ref
                      /\ c.type # "EMPTY"
                      /\ \A integerref \in Rectangle(m.start_ref, m.end_ref) \ {m.start_ref} :
                            \E e \in sheet.cells :
                                /\ e.integerref = integerref
                                /\ e.type = "EMPTY"
                                /\ e.style_index = c.style_index

\* a merged addition has just returned and the sheet holds the region Z1:AA2
C7_Witness ==
    /\ wret.op = "merged addition"
    /\ wret.err = "none"
    /\ [start_ref |-> [row |-> 1, col |-> 26], end_ref |-> [row |-> 2, col |-> 27]]
          \in wb.sheets[1].merged_cells

\* C8: a merged addition (corners that pass the argument tests) whose rectangle
\* contains an occupied reference fails with the duplicate-cell error and
\* records no region; and the rectangles of any two recorded regions are
\* disjoint.
C8_OverlappingMergeRejected ==
    \A s \in 1..Len(wb.sheets) :
        LET sheet == wb.sheets[s]
        IN  /\ \A corners \in ValidCorners, payload \in Payloads :
                  LET r == AddMergedCell(wb, s, corners[1], corners[2], payload)
                  IN  (\E c \in sheet.cells : c.integerref \in Rectangle(corners[1], corners[2]))
                         => /\ r.err \in DuplicateCellErrors
                            /\ r.wb.sheets[s].merged_cells = sheet.merged_cells
            /\ \A m1 \in sheet.merged_cells, m2 \in sheet.merged_cells :
                  m1 # m2 => Rectangle(m1.start_ref, m1.end_ref)
                               \cap Rectangle(m2.start_ref, m2.end_ref) = {}

\* a merged addition has just failed as a duplicate on a sheet that holds two
\* regions already
C8_Witness ==
    /\ wret.op = "merged addition"
    /\ wret.err = "std::runtime_error"
    /\ Cardinality(wb.sheets[1].merged_cells) = 2

\* C4: a publish on a Workbook that holds at least one sheet, to a path that
\* can be written, after an earlier publish has succeeded (its finalize was
\* the last archive call and the archive is closed), succeeds and leaves the
\* sheet list empty.
C4_SecondPublishSucceeds ==
    [][(/\ wret'.op = "publish"
        /\ wret'.arg \in {Lit(path) : path \in WritablePaths}
        /\ Len(wb.sheets) >= 1
        /\ zret.op = "finalize" /\ zret.err = "none"
        /\ ~archive.opened /\ ~archive.out_file.is_open /\ ~archive.out_file.fail)
       => (wret'.err = "none" /\ wb'.sheets = <<>>)]_vars

----------------------------------------------------------------------------
(* The archive writer used out of its life cycle *)

\* C11: finalize on a writer that is not open (never opened, or closed by an
\* earlier finalize) fails with the not-opened error.
C11_FinalizeNotOpenRejected ==
    [][(zret'.op = "finalize" /\ ~archive.opened)
       => zret'.err = "NOT_OPENED_MESG"]_vars

\* C12: addFile on a writer that is not open (never opened, or finalized and
\* not reopened) fails with the not-opened error and changes nothing: no bytes
\* written, entry count, offset, directory buffer and name set unchanged.
C12_AddFileNotOpenRejected ==
    [][(zret'.op = "addFile" /\ ~archive.opened)
       => (/\ zret'.err = "NOT_OPENED_MESG"
           /\ archive' = archive
           /\ added' = added)]_vars

\* addFile was refused on a writer that an earlier finalize had closed
C12_Witness ==
    /\ zret.op = "addFile" /\ zret.err = "NOT_OPENED_MESG"
    /\ ~archive.opened /\ ~archive.out_file.is_open
    /\ archive.filenames # {}
    /\ Len(archive.out_file.bytes) >= 4

\* C13: open on a writer that is already open fails with the double-open
\* error and leaves the archive in progress untouched (entry count, offset,
\* directory buffer, open flag, output), so that the entries added so far can
\* still be finalized.
C13_DoubleOpenRejected ==
    [][(zret'.op = "open" /\ archive.opened)
       => (/\ zret'.err = "DOUBLE_OPEN_MESG"
           /\ archive' = archive
           /\ added' = added
           /\ (added # <<>> /\ ~archive.out_file.fail /\ ShortNames)
                 => LET f == finalize(archive')
                    IN  /\ f.err = "none"
                        /\ Len(f.z.out_file.bytes[Len(f.z.out_file.bytes) - 1].entries)
                              = Len(added))]_vars

\* open was refused on a writer that holds two entries
C13_Witness ==
    /\ zret.op = "open" /\ zret.err = "DOUBLE_OPEN_MESG"
    /\ archive.opened /\ archive.num_files = 2 /\ Len(added) = 2
    /\ ~archive.out_file.fail

----------------------------------------------------------------------------
(* The layout scenario: a caller sets column widths and row heights on the  *)
(* one sheet of a workbook and adds number cells and merged string cells.   *)

\* the columns Z and AA and one outside the grid; the rows 1 and 2 and row 0
LayoutCols == {26, 27, MAX_COL + 1}
LayoutRows == {1, 2, 0}
Widths == {Double(10), Double(20), Double(MAX_COL_WIDTH + 1)}
Heights == {Double(15), Double(30), Double(MAX_ROW_HEIGHT + 1)}

SetColumnWidth(s, col, width) ==
    LET r == set_column_width(wb, s, col, width)
    IN  /\ wb' = r.wb
        /\ wret' = [op |-> "set_column_width", err |-> ExceptionType(r.err), arg |-> NoArg]
        /\ UNCHANGED <<archive, added, zret, counted, refs>>

SetRowHeight(s, row, height) ==
    LET r == set_row_height(wb, s, row, height)
    IN  /\ wb' = r.wb
        /\ wret' = [op |-> "set_row_height", err |-> ExceptionType(r.err), arg |-> NoArg]
        /\ UNCHANGED <<archive, added, zret, counted, refs>>

NextLayout ==
    \E s \in 1..Len(wb.sheets) :
        \/ \E col \in LayoutCols, width \in Widths : SetColumnWidth(s, col, width)
        \/ \E row \in LayoutRows, height \in Heights : SetRowHeight(s, row, height)
        \/ \E integerref \in GridRefs : AddNumberCell(s, integerref, Double(1), generic_style)
        \/ \E start_ref \in GridRefs, end_ref \in GridRefs :
              AddMergedStringCell(s, start_ref, end_ref, Lit("x"), generic_string_style)

SpecLayout == InitSheet /\ [][NextLayout]_vars

\* the widths and heights that pass the range tests
ValidWidths ==
    {w \in Widths : ~DoubleLess(w, Double(MIN_COL_WIDTH)) /\ ~DoubleLess(Double(MAX_COL_WIDTH), w)}
ValidHeights ==
    {h \in Heights : ~DoubleLess(h, Double(MIN_ROW_HEIGHT)) /\ ~DoubleLess(Double(MAX_ROW_HEIGHT), h)}

\* C14: the width and height overrides are last-write-wins per index: a
\* set_column_width(col, width) on a sheet that already holds an override for col
\* leaves a single override for col, with the new width, and that is the width
\* generate_file emits for col; likewise for set_row_height.
C14_LastWidthAndHeightWin ==
    \A s \in 1..Len(wb.sheets) :
        LET sheet == wb.sheets[s]
        IN  /\ \A col \in LayoutCols \cap (1..MAX_COL), width \in ValidWidths :
                  FindByIndex(sheet.column_widths, col) # {}
                  => LET after == set_column_width(wb, s, col, width).wb.sheets[s]
                         file == generate_file(after)
                     IN  /\ FindByIndex(after.column_widths, col) = {<<col, width>>}
                         /\ \A j \in 1..Len(file) :
                               (file[j].tag = "col customWidth" /\ file[j].n = col)
                               => file[j].val.num_val = width
            /\ \A row \in LayoutRows \cap (1..MAX_ROW), height \in ValidHeights :
                  FindByIndex(sheet.row_heights, row) # {}
                  => LET after == set_row_height(wb, s, row, height).wb.sheets[s]
                         file == generate_file(after)
                     IN  /\ FindByIndex(after.row_heights, row) = {<<row, height>>}
                         /\ \A j \in 1..Len(file) :
                               (file[j].tag = "row customHeight" /\ file[j].n = row)
                               => file[j].val.num_val = height

\* C15: generate_file emits a custom width for a column (a custom height for a
\* row) only if the column (row) holds a cell of type NUMBER, FORMULA or
\* STRING; a column or row that holds only the EMPTY cells of a merge gets none.
C15_CustomSizeOnlyWithContent ==
    \A s \in 1..Len(wb.sheets) :
        LET sheet == wb.sheets[s]
            file == generate_file(sheet)
        IN  \A j \in 1..Len(file) :
                /\ file[j].tag = "col customWidth"
                   => \E c \in sheet.cells : c.integerref.col = file[j].n /\ c.type # "EMPTY"
                /\ file[j].tag = "row customHeight"
                   => \E c \in sheet.cells : c.integerref.row = file[j].n /\ c.type # "EMPTY"

----------------------------------------------------------------------------
(* The sheets of a workbook *)

\* a name with its letters A..Z replaced by a..z
LowerCase(name) ==
    [jChar \in 1..Len(name) |->
        IF name[jChar] \in 65..90 THEN name[jChar] + 32 ELSE name[jChar]]

\* C16: addSheet fails with the empty-name error for an empty name and with the
\* duplicate-name error for a name equal, letter case ignored, to the name of
\* a sheet of the workbook; a failed addSheet leaves the workbook unchanged;
\* the names of the sheets are non-empty and pairwise distinct, letter case
\* ignored.
C16_SheetNamesDistinct ==
    /\ \A j \in 1..Len(wb.sheets) : wb.sheets[j].name # <<>>
    /\ \A j, k \in 1..Len(wb.sheets) :
          j # k => LowerCase(wb.sheets[j].name) # LowerCase(wb.sheets[k].name)
    /\ \A name \in SheetNames :
          LET r == addSheet(wb, name)
              taken == \E j \in 1..Len(wb.sheets) :
                          LowerCase(wb.sheets[j].name) = LowerCase(name)
          IN  /\ name = <<>>
                 => /\ r.err = "addsheet() received an empty name for a new sheet."
                    /\ r.wb = wb
              /\ (name # <<>> /\ taken)
                 => /\ r.err = "addSheet() received a new sheet with the same name as an existing sheet."
                    /\ r.wb = wb
              /\ (name # <<>> /\ ~taken)
                 => /\ r.err = "none"
                    /\ r.wb.sheets = Append(wb.sheets, r.wb.sheets[Len(wb.sheets) + 1])
                    /\ r.wb.sheets[Len(wb.sheets) + 1].name = name

\* addSheet was refused for a name the one sheet "s1" of the workbook has taken
C16_Witness ==
    /\ wret.op = "addSheet"
    /\ wret.err = "addSheet() received a new sheet with the same name as an existing sheet."
    /\ Len(wb.sheets) = 1 /\ wb.sheets[1].name = <<115, 49>>

----------------------------------------------------------------------------
(* The style scenario: a caller adds styles to a workbook, directly and by  *)
(* adding number and string cells to its one sheet.                         *)

wrapped_style == [generic_style EXCEPT !.wrap_text = TRUE]

\* the styles passed
Styles == {generic_style, generic_string_style, bold_style, wrapped_style}

\* the references passed: Z1 and AA1
StyleRefs == {integerref \in GridRefs : integerref.row = 1}

AddStyle(cell_style) ==
    LET r == addStyle(wb, cell_style)
    IN  /\ wb' = r.wb
        /\ wret' = [op |-> "addStyle", err |-> "none", arg |-> NoArg]
        /\ UNCHANGED <<archive, added, zret, counted, refs>>

NextStyle ==
    \/ \E cell_style \in Styles : AddStyle(cell_style)
    \/ \E s \in 1..Len(wb.sheets), integerref \in StyleRefs, cell_style \in Styles :
          AddNumberCell(s, integerref, Double(1), cell_style)
    \/ \E s \in 1..Len(wb.sheets), integerref \in StyleRefs, cell_style \in Styles :
          AddStringCell(s, integerref, Lit("x"), cell_style)

SpecStyle == InitSheet /\ [][NextStyle]_vars

\* the catalog holds no style twice; addStyle returns the index of the style
\* equal to its argument, appends only when there is none and keeps the styles
\* already stored at their indices; a second addStyle of the same style
\* returns the same index and changes nothing
StyleCatalogKept ==
    /\ \A j, k \in 1..Len(wb.cell_styles) : j # k => wb.cell_styles[j] # wb.cell_styles[k]
    /\ \A s \in 1..Len(wb.sheets) : \A c \in wb.sheets[s].cells :
          c.style_index + 1 \in 1..Len(wb.cell_styles)
    /\ \A cell_style \in Styles :
          LET first == addStyle(wb, cell_style)
              second == addStyle(first.wb, cell_style)
              stored == {j \in 1..Len(wb.cell_styles) : wb.cell_styles[j] = cell_style}
          IN  /\ first.index + 1 \in 1..Len(first.wb.cell_styles)
              /\ first.wb.cell_styles[first.index + 1] = cell_style
              /\ stored # {} => (first.wb = wb /\ first.index + 1 \in stored)
              /\ stored = {} => first.wb.cell_styles = Append(wb.cell_styles, cell_style)
              /\ first.wb.sheets = wb.sheets
              /\ second.index = first.index
              /\ second.wb = first.wb

\* every step keeps the styles of the catalog at their indices
StyleIndicesKept ==
    /\ Len(wb'.cell_styles) >= Len(wb.cell_styles)
    /\ SubSeq(wb'.cell_styles, 1, Len(wb.cell_styles)) = wb.cell_styles

\* C17: after any sequence of addStyle calls, direct or made by cell
\* additions, the catalog holds no two equal styles; addStyle returns the
\* index of the existing equal style and appends only when there is none;
\* addStyle called twice with a style returns the same index; an index
\* returned earlier keeps denoting the same style.
C17_StylesStoredOnce == []StyleCatalogKept /\ [][StyleIndicesKept]_vars

\* a direct addStyle on a catalog of three styles, one of a string cell at Z1
\* and another of a number cell at AA1
C17_Witness ==
    /\ wret.op = "addStyle"
    /\ Len(wb.cell_styles) = 3
    /\ \E c1, c2 \in wb.sheets[1].cells :
          /\ c1.type = "STRING" /\ c2.type = "NUMBER"
          /\ c1.style_index # c2.style_index

----------------------------------------------------------------------------
(* Publishing a workbook *)

\* the entry names of the fixed parts, in the order of a published archive
PartNames ==
    <<"[Content_Types].xml", "_rels/.rels", "docProps/app.xml", "docProps/core.xml",
      "xl/_rels/workbook.xml.rels", "xl/styles.xml", "xl/workbook.xml">>

\* the archive of the workbook has not been used: nothing was ever added to it
\* and it is not open
ArchiveUnused ==
    archive.filenames = {} /\ ~archive.opened /\ ~archive.out_file.is_open

PublishRefused ==
    /\ archive'.filenames = archive.filenames
    /\ archive'.num_files = 0 /\ archive'.central_directory = <<>>
    /\ ~archive'.opened /\ ~archive'.out_file.is_open
    /\ wb'.sheets = wb.sheets
    /\ wb'.cell_styles = wb.cell_styles

\* C19: publish fails with the no-sheets error on a Workbook without sheets,
\* with the empty-name error when it has sheets and the path is empty, and
\* with the cannot-open error of the archive when the output cannot be opened;
\* in each case no entry is added, the archive is left not open and the sheets
\* and the style catalog are unchanged.
C19_PublishRejectedEarly ==
    [][wret'.op = "publish"
       => /\ wb.sheets = <<>>
             => /\ wret'.err = "publish() called, but Workbook has no Sheets."
                /\ PublishRefused
          /\ (wb.sheets # <<>> /\ wret'.arg = Lit(""))
             => /\ wret'.err = "publish() called with empty filename."
                /\ PublishRefused
          /\ (wb.sheets # <<>> /\ wret'.arg \notin {Lit(path) : path \in WritablePaths \cup {""}})
             => /\ wret'.err = "CANNOT_OPEN_MESG"
                /\ PublishRefused]_vars

\* the three failures on a Workbook whose archive is not open: the errors are
\* as above, the first two leave the archive as it was, and no entry is added
PublishRejectedEarlyWhenClosed ==
    [][(wret'.op = "publish" /\ ~archive.opened)
       => /\ wb.sheets = <<>>
             => /\ wret'.err = "publish() called, but Workbook has no Sheets."
                /\ PublishRefused /\ archive' = archive
          /\ (wb.sheets # <<>> /\ wret'.arg = Lit(""))
             => /\ wret'.err = "publish() called with empty filename."
                /\ PublishRefused /\ archive' = archive
          /\ (wb.sheets # <<>> /\ wret'.arg \notin {Lit(path) : path \in WritablePaths \cup {""}})
             => /\ wret'.err = "CANNOT_OPEN_MESG"
                /\ PublishRefused]_vars

----------------------------------------------------------------------------
(* The corners of a merged addition *)

\* the messages of the test on the order of the two corners
InvalidMergeErrors ==
    {function \o "() received an ending cell reference equal or prior to its starting cell reference." :
        function \in {"add_merged_number_cell", "add_merged_formula_cell",
                      "add_merged_string_cell"}}

\* C20: a merged addition with both corners inside the grid fails with the
\* invalid-merge error exactly when end.row < start.row, or end.col <
\* start.col, or end = start; rectangles one row high or one column wide are
\* accepted; a merge rejected this way leaves the workbook unchanged.
C20_MergeCornersOrdered ==
    \A s \in 1..Len(wb.sheets) :
        \A start_ref \in GridRefs, end_ref \in GridRefs, payload \in Payloads :
            LET r == AddMergedCell(wb, s, start_ref, end_ref, payload)
                misordered == \/ end_ref.row < start_ref.row
                              \/ end_ref.col < start_ref.col
                              \/ end_ref = start_ref
            IN  /\ r.err \in InvalidMergeErrors <=> misordered
                /\ misordered => r.wb = wb
                /\ (~misordered /\ \A integerref \in Rectangle(start_ref, end_ref) :
                                      CellsAt(wb.sheets[s], integerref) = {})
                   => r.err = "none"

\* a merged addition was refused on a sheet that holds the merge Z1:AA1, one
\* row high, and on which the merged addition AA2:Z2 is refused for its corners
C20_Witness ==
    /\ wret.op = "merged addition" /\ wret.err = "std::invalid_argument"
    /\ [start_ref |-> [row |-> 1, col |-> 26], end_ref |-> [row |-> 1, col |-> 27]]
          \in wb.sheets[1].merged_cells
    /\ AddMergedCell(wb, 1, [row |-> 2, col |-> 27], [row |-> 2, col |-> 26],
                     CHOOSE payload \in Payloads : payload.type = "STRING").err
          \in InvalidMergeErrors

----------------------------------------------------------------------------
(* The column scenario: a caller converts column indices to letters and     *)
(* letters to column indices.                                               *)

\* the indices passed: every column of the grid, 0 and the first one outside
ColumnIndexes == 0..(MAX_COL + 1)

\* the strings passed: the empty one, those of one and two characters out of
\* A, Z, z and 1, and XFD, XFE, ZZZ, AAAA, MWLQKWV and MWLQKWW
ColumnStrings ==
    {<<>>}
    \cup {<<c>> : c \in {65, 90, 122, 49}}
    \cup {<<c, d>> : c \in {65, 90, 122, 49}, d \in {65, 90, 122, 49}}
    \cup {<<88, 70, 68>>, <<88, 70, 69>>, <<90, 90, 90>>, <<65, 65, 65, 65>>,
          <<77, 87, 76, 81, 75, 87, 86>>, <<77, 87, 76, 81, 75, 87, 87>>}

\* the caller holds an index and a string; it starts with an index to
\* convert, or with a string to convert
InitColumn ==
    /\ archive = NewIttyZip
    /\ added = <<>>
    /\ zret = NoCall
    /\ wb = NewWorkbook
    /\ counted = NewCounted
    /\ refs = <<>>
    /\ wret \in {[op |-> "none", err |-> "none", integer |-> integer, column |-> <<>>] :
                    integer \in ColumnIndexes}
                \cup {[op |-> "none", err |-> "none", integer |-> 0, column |-> column] :
                    column \in ColumnStrings}

\* column = integer_to_column(integer); a throw leaves column as it was
IntegerToColumn ==
    LET r == integer_to_column(wret.integer)
    IN  /\ wret' = [op |-> "integer_to_column", err |-> r.err, integer |-> wret.integer,
                    column |-> IF r.err = "none" THEN r.column ELSE wret.column]
        /\ UNCHANGED <<archive, added, zret, wb, counted, refs>>

\* integer = column_to_integer(column); a throw leaves integer as it was
ColumnToInteger ==
    LET r == column_to_integer(wret.column)
    IN  /\ wret' = [op |-> "column_to_integer", err |-> r.err, column |-> wret.column,
                    integer |-> IF r.err = "none" THEN r.integer ELSE wret.integer]
        /\ UNCHANGED <<archive, added, zret, wb, counted, refs>>

NextColumn == IntegerToColumn \/ ColumnToInteger

SpecColumn == InitColumn /\ [][NextColumn]_vars

\* C21: for every column index i in 1..16384, integer_to_column(i) is a string
\* of one to three upper-case letters and column_to_integer of it is i (so
\* that integer_to_column is injective there), and integer_to_column of
\* column_to_integer of that string is the string again.
C21_ColumnRoundTrip ==
    (wret.op = "integer_to_column" /\ wret.integer \in 1..MAX_COL)
    => /\ wret.err = "none"
       /\ Len(wret.column) \in 1..3
       /\ \A jChar \in 1..Len(wret.column) : wret.column[jChar] \in 65..90
       /\ column_to_integer(wret.column) = [integer |-> wret.integer, err |-> "none"]
       /\ integer_to_column(column_to_integer(wret.column).integer)
             = [column |-> wret.column, err |-> "none"]

\* integer_to_column(16384) has returned XFD
C21_Witness ==
    /\ wret.op = "integer_to_column" /\ wret.err = "none"
    /\ wret.integer = MAX_COL
    /\ wret.column = <<88, 70, 68>>

\* the place of a letter in the alphabet, and the bijective base-26 value of a
\* string of letters
LetterRank(c) == IF c \in 97..122 THEN c - 96 ELSE c - 64
RECURSIVE BijectiveValue(_)
BijectiveValue(column) ==
    IF column = <<>> THEN 0
    ELSE 26 * BijectiveValue(SubSeq(column, 1, Len(column) - 1))
         + LetterRank(column[Len(column)])

\* C22: column_to_integer fails for every string of letters, of any length,
\* whose bijective base-26 value exceeds 16384 (every string of four or more
\* letters is one); when it returns, the value lies in 1..16384 and is the
\* bijective base-26 value of the string.
C22_ColumnRangeChecked ==
    (/\ wret.op = "column_to_integer"
     /\ wret.column # <<>>
     /\ \A jChar \in 1..Len(wret.column) : wret.column[jChar] \in (65..90) \cup (97..122))
    => LET exceeds == Len(wret.column) >= 4 \/ BijectiveValue(wret.column) > MAX_COL
       IN  /\ exceeds
              => wret.err = "column_to_integer() received a too large column index."
           /\ wret.err = "none"
              => /\ wret.integer \in 1..MAX_COL
                 /\ ~exceeds
                 /\ wret.integer = BijectiveValue(wret.column)

----------------------------------------------------------------------------
(* The order of the cells of a sheet and of the rows of its file *)

RowTags == {"row", "row customHeight"}
CellTags == {"c v", "c f", "c inlineStr", "c"}

\* the positions in a file of the elements with a tag out of tags, in order
RECURSIVE PositionsOf(_, _, _)
PositionsOf(file, tags, p) ==
    IF p > Len(file) THEN <<>>
    ELSE (IF file[p].tag \in tags THEN <<p>> ELSE <<>>) \o PositionsOf(file, tags, p + 1)

\* the iteration of the cells is strictly increasing in (row, column)
IteratesInOrder(ordered) ==
    \A j \in 1..(Len(ordered) - 1) :
        \/ ordered[j].integerref.row < ordered[j + 1].integerref.row
        \/ /\ ordered[j].integerref.row = ordered[j + 1].integerref.row
           /\ ordered[j].integerref.col < ordered[j + 1].integerref.col

\* the rows of the file of a sheet: one <row> per row that holds a cell, in
\* increasing order, each closed before the next is opened, and the cells of
\* the sheet in the order of iteration, each inside the <row> of its row
RowsInOrder(sheet) ==
    LET file == generate_file(sheet)
        ordered == CellsInOrder(sheet.cells)
        rows == PositionsOf(file, RowTags, 1)
        ends == PositionsOf(file, {"/row"}, 1)
        cs == PositionsOf(file, CellTags, 1)
    IN  /\ {file[rows[k]].n : k \in 1..Len(rows)}
             = {cell.integerref.row : cell \in sheet.cells}
        /\ \A k \in 1..(Len(rows) - 1) : file[rows[k]].n < file[rows[k + 1]].n
        /\ Len(ends) = Len(rows)
        /\ \A k \in 1..Len(rows) :
              /\ rows[k] < ends[k]
              /\ k < Len(rows) => ends[k] < rows[k + 1]
        /\ Len(cs) = Len(ordered)
        /\ \A j \in 1..Len(cs) :
              /\ file[cs[j]].ref = integerref_to_mixedref(ordered[j].integerref).mixedref
              /\ \E k \in 1..Len(rows) :
                    /\ rows[k] < cs[j] /\ cs[j] < ends[k]
                    /\ file[rows[k]].n = ordered[j].integerref.row

\* C23: whatever the order in which the cells were added, the iteration of the
\* cells of a sheet is strictly increasing in (row, column), and the file of
\* the sheet has exactly one <row> per row that holds a cell, in strictly
\* increasing row order, no row reopened after it was closed, and the cells of
\* each row in strictly increasing column order.
C23_CellsAndRowsInOrder ==
    \A s \in 1..Len(wb.sheets) :
        LET ordered == CellsInOrder(wb.sheets[s].cells)
        IN  /\ Len(ordered) = Cardinality(wb.sheets[s].cells)
            /\ {ordered[j] : j \in 1..Len(ordered)} = wb.sheets[s].cells
            /\ IteratesInOrder(ordered)
            /\ RowsInOrder(wb.sheets[s])

\* the sheet holds a cell at each of Z1, AA1, Z2 and AA2, of more than one type
C23_Witness ==
    /\ {cell.integerref : cell \in wb.sheets[1].cells} = GridRefs
    /\ Cardinality({cell.type : cell \in wb.sheets[1].cells}) >= 3
    /\ wret.op = "plain addition" /\ wret.err = "none"

----------------------------------------------------------------------------
(* The clock scenario: dosTimeDate is called at some local time.            *)

\* the local times the clock returns: the years 1979, 1980, 2026, 2107 and
\* 2108, January and December, the first and the last day, the first and the
\* last hour and minute, and the seconds 0, 59 and 60
LocalTimes ==
    [tm_year : {79, 80, 126, 207, 208}, tm_mon : {0, 11}, tm_mday : {1, 31},
     tm_hour : {0, 23}, tm_min : {0, 59}, tm_sec : {0, 59, 60}]

InitClock ==
    /\ archive = NewIttyZip
    /\ added = <<>>
    /\ zret = NoCall
    /\ wb = NewWorkbook
    /\ counted = NewCounted
    /\ refs = <<>>
    /\ wret \in {[op |-> "none", err |-> "none", timestruct |-> timestruct,
                  output |-> [time |-> 0, date |-> 0]] : timestruct \in LocalTimes}

DosTimeDate ==
    /\ wret' = [op |-> "dosTimeDate", err |-> "none", timestruct |-> wret.timestruct,
                output |-> dosTimeDate(wret.timestruct)]
    /\ UNCHANGED <<archive, added, zret, wb, counted, refs>>

NextClock == DosTimeDate

SpecClock == InitClock /\ [][NextClock]_vars

\* the time field of a local time: hour << 11 | minute << 5 | min(second, 59) / 2
TimeField(timestruct) ==
    timestruct.tm_hour * 2048 + timestruct.tm_min * 32
    + (IF timestruct.tm_sec > 59 THEN 59 ELSE timestruct.tm_sec) \div 2

\* the year of a local time lies in 1980..2107
YearInWindow(timestruct) ==
    timestruct.tm_year + 1900 >= 1980 /\ timestruct.tm_year + 1900 <= 2107

----------------------------------------------------------------------------
(* A merged addition that fails as a duplicate *)

\* a comes before b in the order of the loops of a merged addition
RowMajorBefore(a, b) == a.row < b.row \/ (a.row = b.row /\ a.col < b.col)

\* C25: a merged addition is not atomic. When it fails with the duplicate-cell
\* error at a reference of the rectangle other than start, the start cell and
\* an Empty cell at every reference that comes before the collision in
\* row-major order have been added to the sheet and their columns to
\* used_columns, and no region has been recorded; when the collision is at
\* start itself the cells of the sheet are unchanged.
C25_MergeNotAtomic ==
    \A s \in 1..Len(wb.sheets) :
        \A corners \in ValidCorners, payload \in Payloads :
            LET start_ref == corners[1]
                sheet == wb.sheets[s]
                r == AddMergedCell(wb, s, start_ref, corners[2], payload)
                after == r.wb.sheets[s]
                occupied == {integerref \in Rectangle(start_ref, corners[2]) :
                                CellsAt(sheet, integerref) # {}}
            IN  (r.err \in DuplicateCellErrors <=> occupied # {})
                /\ (r.err \in DuplicateCellErrors =>
                      /\ after.merged_cells = sheet.merged_cells
                      /\ IF start_ref \in occupied
                         THEN /\ after.cells = sheet.cells
                              /\ after.used_columns = sheet.used_columns
                         ELSE LET collision ==
                                      CHOOSE integerref \in occupied :
                                          \A other \in occupied \ {integerref} :
                                              RowMajorBefore(integerref, other)
                                  inserted ==
                                      {integerref \in Rectangle(start_ref, corners[2]) \ {start_ref} :
                                          RowMajorBefore(integerref, collision)}
                              IN  /\ sheet.cells \subseteq after.cells
                                  /\ {c.integerref : c \in after.cells \ sheet.cells}
                                        = {start_ref} \cup inserted
                                  /\ \A c \in after.cells \ sheet.cells :
                                        IF c.integerref = start_ref
                                        THEN /\ c.type = payload.type
                                             /\ c.num_val = payload.num_val
                                             /\ c.str_fml_val = payload.str_fml_val
                                        ELSE c.type = "EMPTY"
                                  /\ after.used_columns
                                        = sheet.used_columns \cup {start_ref.col}
                                            \cup {integerref.col : integerref \in inserted})

\* a merged addition has just failed as a duplicate and the sheet holds an
\* Empty cell that lies in no recorded region
C25_Witness ==
    /\ wret.op = "merged addition"
    /\ wret.err = "std::runtime_error"
    /\ \E c \in wb.sheets[1].cells :
          /\ c.type = "EMPTY"
          /\ \A m \in wb.sheets[1].merged_cells :
                c.integerref \notin Rectangle(m.start_ref, m.end_ref)

----------------------------------------------------------------------------
(* The rejection scenario: a caller adds cells to the one sheet of a        *)
(* workbook with references, values and styles of which some are refused;   *)
(* the call, its style and what it threw are recorded.                      *)

\* the references passed: Z1, AA1 and one outside the grid
RejectRefs == StyleRefs \cup {[row |-> 1, col |-> MAX_COL + 1]}

\* the styles passed
RejectStyles == {generic_style, bold_style, wrapped_style}

\* the formulas passed: "=Z1" and one of MAX_FORMULA_LEN + 1 characters
RejectFormulas == {Lit("=Z1"), [text |-> "x", rep |-> MAX_FORMULA_LEN + 1]}

\* the strings passed: "x", one of MAX_STRING_LEN + 1 characters and one of
\* MAX_STRING_LINE_BREAKS + 1 line breaks
RejectStrings ==
    {Lit("x"), [text |-> "x", rep |-> MAX_STRING_LEN + 1],
     [text |-> "\n", rep |-> MAX_STRING_LINE_BREAKS + 1]}

StyledCall(op, r, cell_style) ==
    /\ wb' = r.wb
    /\ wret' = [op |-> op, err |-> r.err, arg |-> NoArg, cell_style |-> cell_style]
    /\ UNCHANGED <<archive, added, zret, counted, refs>>

NumberCellCall(s, integerref, number, cell_style) ==
    StyledCall("add_number_cell",
               add_number_cell(wb, s, integerref, number, cell_style), cell_style)

FormulaCellCall(s, integerref, formula, cell_style) ==
    StyledCall("add_formula_cell",
               add_formula_cell(wb, s, integerref, formula, cell_style), cell_style)

StringCellCall(s, integerref, value, cell_style) ==
    StyledCall("add_string_cell",
               add_string_cell(wb, s, integerref, value, cell_style), cell_style)

MergedNumberCellCall(s, start_ref, end_ref, number, cell_style) ==
    StyledCall("add_merged_number_cell",
               add_merged_number_cell(wb, s, start_ref, end_ref, number, cell_style),
               cell_style)

NextReject ==
    \E s \in 1..Len(wb.sheets), cell_style \in RejectStyles :
        \/ \E integerref \in RejectRefs :
              NumberCellCall(s, integerref, Double(1), cell_style)
        \/ \E integerref \in RejectRefs, formula \in RejectFormulas :
              FormulaCellCall(s, integerref, formula, cell_style)
        \/ \E integerref \in RejectRefs, value \in RejectStrings :
              StringCellCall(s, integerref, value, cell_style)
        \/ \E start_ref \in RejectRefs, end_ref \in RejectRefs :
              MergedNumberCellCall(s, start_ref, end_ref, Double(1), cell_style)

SpecReject ==
    /\ InitSheet
    /\ [][NextReject]_vars

\* the failures the plain additions detect before they register the style
EarlyErrors ==
    {"add_number_cell() received an invalid cell reference.",
     "add_formula_cell() received an invalid cell reference.",
     "add_string_cell() received an invalid cell reference.",
     "add_empty_cell() received an invalid cell reference.",
     "the formula supplied to add_formula_cell() is too long.",
     "the string value supplied to add_string_cell() is too long.",
     "the string value supplied to add_string_cell() contains too many line breaks."}

\* the catalog after cell_style has been registered in cell_styles
Registered(cell_styles, cell_style) ==
    IF \E j \in 1..Len(cell_styles) : cell_styles[j] = cell_style
    THEN cell_styles ELSE Append(cell_styles, cell_style)

\* a step of a plain addition that fails as a duplicate changes no sheet and
\* registers the style; one that fails earlier changes nothing
RejectedStep ==
    /\ (/\ wret'.op \in {"add_number_cell", "add_formula_cell", "add_string_cell"}
        /\ wret'.err \in DuplicateCellErrors)
       => /\ wb'.sheets = wb.sheets
          /\ wb'.cell_styles = Registered(wb.cell_styles, wret'.cell_style)
    /\ (/\ wret'.op \in {"add_number_cell", "add_formula_cell", "add_string_cell"}
        /\ wret'.err # "none"
        /\ wret'.err \notin DuplicateCellErrors)
       => /\ wret'.err \in EarlyErrors
          /\ wb' = wb

\* the same of every plain addition and of add_empty_cell, from this state
RejectedCalls ==
    \A s \in 1..Len(wb.sheets), integerref \in RejectRefs, cell_style \in RejectStyles :
        \A r \in {add_number_cell(wb, s, integerref, Double(1), cell_style),
                  add_empty_cell(wb, s, integerref, cell_style)}
                 \cup {add_formula_cell(wb, s, integerref, formula, cell_style) :
                          formula \in RejectFormulas}
                 \cup {add_string_cell(wb, s, integerref, value, cell_style) :
                          value \in RejectStrings} :
            /\ r.err \in DuplicateCellErrors
               => /\ r.wb.sheets = wb.sheets
                  /\ r.wb.cell_styles = Registered(wb.cell_styles, cell_style)
            /\ r.err \in EarlyErrors => r.wb = wb
            /\ r.err \in DuplicateCellErrors \cup EarlyErrors \cup {"none"}

\* C26: when add_number_cell, add_formula_cell, add_string_cell or
\* add_empty_cell fails because the reference is occupied, the cells and the
\* used columns of the sheet are unchanged but the style passed has been
\* registered: the catalog is one entry longer if the style was not in it.
\* The failures detected earlier (reference out of range, formula or string
\* too long, too many line breaks) leave the catalog unchanged.
C26_FailedAddRegistersStyle == []RejectedCalls /\ [][RejectedStep]_vars

\* add_number_cell has just failed as a duplicate with the bold style, which
\* is in the catalog though no cell of the sheet has it
C26_Witness ==
    /\ wret.op = "add_number_cell"
    /\ wret.err \in DuplicateCellErrors
    /\ wret.cell_style = bold_style
    /\ \E j \in 1..Len(wb.cell_styles) :
          /\ wb.cell_styles[j] = bold_style
          /\ \A c \in wb.sheets[1].cells : c.style_index # j - 1

----------------------------------------------------------------------------
(* A publish that fails after it has opened the archive *)

\* the failures publish detects before it calls archive.open
PublishArgumentErrors ==
    {"publish() called, but Workbook has no Sheets.",
     "publish() called with empty filename."}

\* C27 as stated: once a publish has failed after opening the archive, the
\* archive is open and every later publish fails with the double-open error
\* at open, whatever sheets the Workbook holds.
C27_LaterPublishDoubleOpen ==
    [][(wret'.op = "publish" /\ archive.opened)
       => wret'.err = "DOUBLE_OPEN_MESG"]_vars

\* a publish step that failed in an addFile or finalize call of its own
FailedAfterOpen ==
    /\ wret'.op = "publish"
    /\ wret'.err \notin PublishArgumentErrors \cup {"none"}
    /\ zret'.op \in {"addFile", "finalize"}

\* from this state, a publish to a path that can be written whose output
\* stream fails once the parts are written: finalize throws and leaves the
\* archive open, and the next open is a double open
FinalizeFailureLeavesOpen ==
    \A path \in WritablePaths, timestruct \in Clocks :
        (wb.sheets # <<>> /\ ~archive.opened)
        => LET o == open(archive, path)
               parts == addSheetParts(wb,
                            addFixedParts([z |-> o.z, added |-> <<>>, err |-> o.err,
                                           zret |-> [op |-> "open", err |-> o.err,
                                                     arg |-> NoArg]],
                                          1, timestruct),
                            timestruct)
               f == finalize([parts.st.z EXCEPT !.out_file.fail = TRUE])
           IN  parts.st.err = "none"
               => /\ f.err = "OUTPUT_FAIL_MESG"
                  /\ f.z.opened
                  /\ open(f.z, path).err = "DOUBLE_OPEN_MESG"

\* C27 amended: when publish fails after it has opened the archive, the
\* archive is left open; the archive then stays open, and every later publish
\* fails: with the no-sheets error when the Workbook holds no sheet, with the
\* empty-name error when it holds sheets and the file name is empty, and
\* otherwise with the double-open error at open. No later publish succeeds.
C27_FailedPublishLeavesArchiveOpen ==
    /\ []FinalizeFailureLeavesOpen
    /\ [][/\ FailedAfterOpen => (~archive.opened /\ archive'.opened)
          /\ archive.opened => archive'.opened
          /\ (wret'.op = "publish" /\ archive.opened)
             => /\ wret'.err =
                      IF wb.sheets = <<>>
                      THEN "publish() called, but Workbook has no Sheets."
                      ELSE IF wret'.arg = Lit("")
                      THEN "publish() called with empty filename."
                      ELSE "DOUBLE_OPEN_MESG"
                /\ archive' = archive
                /\ wb' = wb]_vars

\* a publish of a Workbook that holds a sheet has just failed with the
\* double-open error, the archive having been left open by a publish that
\* failed in addFile
C27_Witness ==
    /\ wret.op = "publish" /\ wret.err = "DOUBLE_OPEN_MESG"
    /\ zret.op = "open" /\ zret.err = "DOUBLE_OPEN_MESG"
    /\ archive.opened
    /\ wb.sheets # <<>>

----------------------------------------------------------------------------
(* The reference scenario: a caller keeps the Sheet& that addSheet returns  *)
(* and adds cells through the references it holds.  addSheet returns        *)
(* sheets.back() of a std::vector<Sheet>: a push_back that finds the vector *)
(* full moves the sheets to new storage and every reference into the old    *)
(* storage dangles.  Whether a push_back finds the vector full depends on   *)
(* the growth of its capacity, which the language leaves to the library;    *)
(* the first push_back always allocates.                                    *)

\* the sheet names passed: "S1", "T" and "U"
RefNames == {SheetS1, <<84>>, <<85>>}

\* what a call through a dangling reference can do: write into the freed
\* storage and return, the same after it has registered the style with the
\* Workbook the freed sheet still names, or end the process
DanglingOutcomes == {"lost", "style registered", "SIGSEGV"}

\* Sheet &held = workbook.addSheet(name)
AddSheetRef(name, reallocated) ==
    LET r == addSheet(wb, name)
    IN  /\ wret.err # "SIGSEGV"
        /\ Len(wb.sheets) < MaxSheets
        /\ wb.sheets = <<>> => reallocated
        /\ wb' = r.wb
        /\ refs' = IF r.err # "none" THEN refs
                   ELSE Append([h \in 1..Len(refs) |->
                                   [refs[h] EXCEPT !.dangling = @ \/ reallocated]],
                               [s |-> Len(r.wb.sheets), dangling |-> FALSE])
        /\ wret' = [op |-> "addSheet", err |-> r.err, arg |-> NoArg, h |-> 0]
        /\ UNCHANGED <<archive, added, zret, counted>>

\* held.add_number_cell(integerref, number, cell_style) through the h-th
\* reference the caller holds
AddNumberCellRef(h, integerref, number, cell_style, outcome) ==
    /\ wret.err # "SIGSEGV"
    /\ IF ~refs[h].dangling
       THEN LET r == add_number_cell(wb, refs[h].s, integerref, number, cell_style)
            IN  /\ wb' = r.wb
                /\ wret' = [op |-> "add_number_cell", err |-> r.err, arg |-> NoArg, h |-> h]
       ELSE /\ wb' = IF outcome = "style registered"
                     THEN addStyle(wb, cell_style).wb ELSE wb
            /\ wret' = [op |-> "add_number_cell",
                        err |-> IF outcome = "SIGSEGV" THEN "SIGSEGV" ELSE "none",
                        arg |-> NoArg, h |-> h]
    /\ UNCHANGED <<archive, added, zret, counted, refs>>

\* workbook.publish(filename); the caller lets go of its references once
\* publish has removed sheets
PublishRefs(filename, timestruct) ==
    \E r \in {publish(wb, archive, added, zret, filename, timestruct)} :
        /\ wret.err # "SIGSEGV"
        /\ wb' = r.wb
        /\ archive' = r.z
        /\ added' = r.added
        /\ zret' = r.zret
        /\ wret' = [op |-> "publish", err |-> r.err, arg |-> Lit(filename), h |-> 0]
        /\ refs' = IF r.wb.sheets = wb.sheets THEN refs ELSE <<>>
        /\ UNCHANGED counted

NextRefs ==
    \/ \E name \in RefNames, reallocated \in BOOLEAN : AddSheetRef(name, reallocated)
    \/ \E h \in 1..Len(refs), outcome \in DanglingOutcomes :
          AddNumberCellRef(h, [row |-> 1, col |-> 26], Double(1), bold_style, outcome)
    \/ \E filename \in WritablePaths, timestruct \in Clocks : PublishRefs(filename, timestruct)

SpecRefs == Init /\ [][NextRefs]_vars

\* C28: a reference returned by addSheet stays valid after any number of later
\* addSheet calls, until publish empties the sheet list: it keeps referring to
\* the sheet it was returned for, so that a cell can still be added through
\* it (the call ends in the function, and when it returns the cell is on that
\* sheet).
C28_SheetReferenceStaysValid ==
    [][wret'.op = "add_number_cell"
       => /\ wret'.err # "SIGSEGV"
          /\ wret'.err = "none"
             => \E c \in wb'.sheets[refs[wret'.h].s].cells :
                   c.integerref = [row |-> 1, col |-> 26]]_vars

====
